---------------------------- MODULE Spec2Model ----------------------------
(***************************************************************************)
(* A model of quantum-go-utils: the request canonicalizer                  *)
(* (qa/requests/canonical.go), the TPM-backed signer                       *)
(* (tpmdevice/tpmdevice.go) with the goroutines that share it, and the     *)
(* encrypted PQ key file of cryptoctx (tpmdevice/windows_tpm.go).          *)
(*                                                                         *)
(* Go strings are modelled as sequences of one-character strings, so that  *)
(* trimming, splitting, joining, prefix tests and number formatting are    *)
(* computed the way the code computes them.                                *)
(***************************************************************************)
EXTENDS Integers, Sequences, FiniteSets, TLC

VARIABLES
    \* ---- canonicalizer ----
    ci,        \* the CanonicalInput last given to CanonicalString
    canon,     \* what CanonicalString returned for ci: [called, err, s]
    wire,      \* the canonical text as it reaches the parser
    tampered,  \* how many times wire was altered after CanonicalString produced it
    parsed,    \* what ParseCanonicalString returned for wire
    \* ---- TPM signer ----
    slots,     \* the device's persistent handles: handle -> object
    transients,\* number of transient objects loaded in the device
    devOpen,   \* whether the device session (rwc) is open
    signer,    \* the *client returned by NewWithConfig, or NoSigner
    call,      \* the last NewWithConfig call: its inputs, pre-state and result
    log,       \* the device commands of the last NewWithConfig call, in order
    closeRets, \* what the calls of client.Close returned, in order
    devCloses, \* how many times client.Close called rwc.Close()
    \* ---- goroutines calling client.Sign ----
    gor,       \* goroutine -> where it is in Sign, its message, what Sign returned
    inflight,  \* the goroutines whose command is on the session, unanswered, in order
    submitted, \* the goroutines in the order they called Sign
    completed, \* the goroutines in the order their Sign returned
    \* ---- the PQ key envelope (cryptoctx) ----
    rts,       \* process -> the runtimeImpl it calls: [dev, label, path, scheme]
    dir,       \* the directory: file name -> the file it names, or NoFile
    files,     \* file -> what it holds
    ens,       \* process -> where it is in EnsurePQKeypair, and what that returned
    made,      \* what the EnsurePQKeypair calls have generated and sealed
    loaded,    \* the last loadPQKeypair: who called, what it read and returned
    edits,     \* what was done to the envelope file from outside the library
    \* ---- calls looked at on their own ----
    hostCall,  \* the NormalizeBackendHost call: its input and what it returned
    pathCall,  \* the NormalizeAndValidatePath call: its input and what it returned
    signRet,   \* the client.Sign call: what the device answered and what Sign returned
    seal,      \* the Sealer call of the runtime: its session, its commands, its result
    retry,     \* the retry.Retry call: its configuration, its counters, its waits
    pair,      \* two CanonicalInputs and what CanonicalString returned for each
    rtNew,     \* the cryptoctx.New call: its configuration and what it returned
    \* ---- the ethrpc client ----
    eth,       \* the *Client: its networks, ActiveNetwork, ActiveRPC, the last call
    \* ---- the polling subscription of the simulated chain ----
    sub        \* the pollingHeadSub, its goroutine, the channels it writes to

canonVars == <<ci, canon, wire, tampered, parsed>>
tpmVars == <<slots, transients, devOpen, signer, call, log, closeRets, devCloses>>
signVars == <<gor, inflight, submitted, completed>>
pqVars == <<rts, dir, files, ens, made, loaded, edits>>
callVars == <<hostCall, pathCall, signRet, seal, retry>>
moreVars == <<pair, rtNew, eth, sub>>
vars == <<canonVars, tpmVars, signVars, pqVars, callVars, moreVars>>
\* what the canonicalizer, and what the TPM client, leaves alone
otherThanCanon == <<tpmVars, signVars, pqVars, callVars, moreVars>>
otherThanTpm == <<canonVars, signVars, pqVars, callVars, moreVars>>
otherThanSign == <<canonVars, tpmVars, pqVars, callVars, moreVars>>
otherThanPq == <<canonVars, tpmVars, signVars, callVars, moreVars>>
otherThanCalls == <<canonVars, tpmVars, signVars, pqVars, moreVars>>
otherThanMore == <<canonVars, tpmVars, signVars, pqVars, callVars>>

-----------------------------------------------------------------------------
(* Call by value.  TLC evaluates the arguments of an operator and the names *)
(* of a LET by name; With hands Body the value of x, evaluated once, as a   *)
(* Go call does.                                                            *)

With(x, Body(_)) == CHOOSE r \in {Body(v) : v \in {x}} : TRUE
With2(x, y, Body(_, _)) == CHOOSE r \in {Body(v, w) : v \in {x}, w \in {y}} : TRUE

-----------------------------------------------------------------------------
(* Strings *)

Rep(c, n) == [i \in 1..n |-> c]

LowerChars == <<"a","b","c","d","e","f","g","h","i","j","k","l","m",
                "n","o","p","q","r","s","t","u","v","w","x","y","z">>
UpperChars == <<"A","B","C","D","E","F","G","H","I","J","K","L","M",
                "N","O","P","Q","R","S","T","U","V","W","X","Y","Z">>
DigitChars == <<"0","1","2","3","4","5","6","7","8","9">>

\* unicode.IsSpace restricted to the characters the model uses
IsSpace(c) == c \in {" ", "\n", "\t", "\r"}

\* the position of character c in cs, 0 when absent
IndexIn(c, cs) == IF \E i \in 1..Len(cs) : cs[i] = c
                  THEN CHOOSE i \in 1..Len(cs) : cs[i] = c
                  ELSE 0

ToUpperChar(c) ==
    With(IndexIn(c, LowerChars), LAMBDA i : IF i > 0 THEN UpperChars[i] ELSE c)
ToLowerChar(c) ==
    With(IndexIn(c, UpperChars), LAMBDA i : IF i > 0 THEN LowerChars[i] ELSE c)

\* strings.ToUpper, strings.ToLower
ToUpper(str) == With(str, LAMBDA s : [i \in 1..Len(s) |-> ToUpperChar(s[i])])
ToLower(str) == With(str, LAMBDA s : [i \in 1..Len(s) |-> ToLowerChar(s[i])])

\* the least and the greatest element of a non-empty set of integers
MinOf(set) == With(set, LAMBDA S : CHOOSE i \in S : \A j \in S : i <= j)
MaxOf(set) == With(set, LAMBDA S : CHOOSE i \in S : \A j \in S : i >= j)

\* strings.TrimSpace
TrimSpace(str) ==
    With(str, LAMBDA s :
        With({i \in 1..Len(s) : ~IsSpace(s[i])}, LAMBDA keep :
            IF keep = {} THEN <<>> ELSE SubSeq(s, MinOf(keep), MaxOf(keep))))

HasPrefix(str, pre) ==
    With2(str, pre, LAMBDA s, p : Len(s) >= Len(p) /\ SubSeq(s, 1, Len(p)) = p)
HasSuffix(str, suf) ==
    With2(str, suf, LAMBDA s, p :
        Len(s) >= Len(p) /\ SubSeq(s, Len(s) - Len(p) + 1, Len(s)) = p)
TrimPrefix(str, pre) ==
    With2(str, pre, LAMBDA s, p :
        IF HasPrefix(s, p) THEN SubSeq(s, Len(p) + 1, Len(s)) ELSE s)
TrimSuffix(str, suf) ==
    With2(str, suf, LAMBDA s, p :
        IF HasSuffix(s, p) THEN SubSeq(s, 1, Len(s) - Len(p)) ELSE s)

\* the positions at which p occurs in s
Occurrences(s, p) ==
    {i \in 1..(Len(s) - Len(p) + 1) : SubSeq(s, i, i + Len(p) - 1) = p}

\* strings.Index: the 1-based position of the first occurrence of p in s, 0 when absent
Index(str, pat) ==
    With2(str, pat, LAMBDA s, p :
        With(Occurrences(s, p), LAMBDA hits : IF hits = {} THEN 0 ELSE MinOf(hits)))

\* strings.LastIndex
LastIndex(str, pat) ==
    With2(str, pat, LAMBDA s, p :
        With(Occurrences(s, p), LAMBDA hits : IF hits = {} THEN 0 ELSE MaxOf(hits)))

Contains(str, pat) == Index(str, pat) > 0

\* s[from:] and s[:to] of Go, 1-based: from position i on, up to position i
From(str, i) == With(str, LAMBDA s : SubSeq(s, i, Len(s)))
UpTo(str, i) == SubSeq(str, 1, i)

\* strings.Split(s, sep) for a one-character separator: always at least one piece
RECURSIVE Split(_, _)
Split(str, sep) ==
    With(str, LAMBDA s :
        With(Index(s, <<sep>>), LAMBDA i :
            IF i = 0 THEN <<s>>
            ELSE <<UpTo(s, i - 1)>> \o Split(From(s, i + 1), sep)))

\* strings.Join(lines, sep) for a one-character separator
RECURSIVE Join(_, _)
Join(lines, sep) ==
    With(lines, LAMBDA ls :
        IF Len(ls) = 0 THEN <<>>
        ELSE IF Len(ls) = 1 THEN ls[1]
        ELSE ls[1] \o <<sep>> \o Join(Tail(ls), sep))

\* fmt.Sprintf("%d", n)
RECURSIVE NatToStr(_)
NatToStr(num) ==
    With(num, LAMBDA n :
        IF n < 10 THEN <<DigitChars[n + 1]>>
        ELSE NatToStr(n \div 10) \o <<DigitChars[(n % 10) + 1]>>)

Itoa(num) == With(num, LAMBDA n : IF n < 0 THEN <<"-">> \o NatToStr(0 - n) ELSE NatToStr(n))

IsDigit(c) == IndexIn(c, DigitChars) > 0
IsDigits(str) == With(str, LAMBDA s : Len(s) > 0 /\ \A i \in 1..Len(s) : IsDigit(s[i]))

RECURSIVE DigitsToNat(_)
DigitsToNat(str) ==
    With(str, LAMBDA s :
        IF Len(s) = 0 THEN 0
        ELSE 10 * DigitsToNat(UpTo(s, Len(s) - 1)) + (IndexIn(s[Len(s)], DigitChars) - 1))

\* strconv.ParseInt(s, 10, 64): an optional sign, then digits: [ok, n]
ParseInt(str) ==
    With(str, LAMBDA s :
        With(IF Len(s) > 0 /\ s[1] \in {"-", "+"} THEN Tail(s) ELSE s, LAMBDA body :
            IF ~IsDigits(body) THEN [ok |-> FALSE, n |-> 0]
            ELSE [ok |-> TRUE,
                  n  |-> IF s[1] = "-" THEN 0 - DigitsToNat(body) ELSE DigitsToNat(body)]))

-----------------------------------------------------------------------------
(* net/url and net, as far as NormalizeBackendHost uses them *)

IsLetter(c) == IndexIn(c, LowerChars) > 0 \/ IndexIn(c, UpperChars) > 0
IsHex(c) == IsDigit(c) \/ c \in {"a","b","c","d","e","f","A","B","C","D","E","F"}
IsCTL(c) == c \in {"\n", "\t", "\r"}

UrlBad == [err |-> TRUE, host |-> <<>>]
UrlNoHost == [err |-> FALSE, host |-> <<>>]

\* url.getScheme: [scheme, rest, err]
GetScheme(rawURL) ==
    With(rawURL, LAMBDA raw :
        With({i \in 1..Len(raw) :
                ~(\/ IsLetter(raw[i])
                  \/ (i > 1 /\ (IsDigit(raw[i]) \/ raw[i] \in {"+", "-", "."})))},
             LAMBDA stops :
                IF stops = {} THEN [scheme |-> <<>>, rest |-> raw, err |-> FALSE]
                ELSE With(MinOf(stops), LAMBDA i :
                        IF raw[i] # ":" THEN [scheme |-> <<>>, rest |-> raw, err |-> FALSE]
                        ELSE IF i = 1 THEN [scheme |-> <<>>, rest |-> <<>>, err |-> TRUE]
                        ELSE [scheme |-> UpTo(raw, i - 1), rest |-> From(raw, i + 1),
                              err |-> FALSE])))

\* url.validOptionalPort
ValidOptionalPort(str) ==
    With(str, LAMBDA port :
        \/ Len(port) = 0
        \/ /\ port[1] = ":"
           /\ \A i \in 2..Len(port) : IsDigit(port[i]))

\* url.shouldEscape(c, encodeHost) = FALSE
HostCharOK(c) ==
    \/ IsLetter(c) \/ IsDigit(c)
    \/ c \in {"!", "$", "&", "'", "(", ")", "*", "+", ",", ";", "=", ":", "[", "]", "<", ">", "\""}
    \/ c \in {"-", "_", ".", "~"}

\* netip.ParseAddr for an IPv6 address without zone and without embedded
\* IPv4: up to eight groups of one to four hex digits, "::" at most once
\* and standing for at least one group
IsIPv6(str) ==
    With(str, LAMBDA s :
        With(Occurrences(s, <<":", ":">>), LAMBDA doubles :
            With(Split(s, ":"), LAMBDA groups :
                /\ Len(s) >= 2
                /\ \A i \in 1..Len(s) : IsHex(s[i]) \/ s[i] = ":"
                /\ ~Contains(s, <<":", ":", ":">>)
                /\ Cardinality(doubles) <= 1
                /\ \A k \in 1..Len(groups) : Len(groups[k]) <= 4
                /\ \A i \in {1, Len(s)} : s[i] = ":" => (i \in doubles \/ i - 1 \in doubles)
                /\ IF doubles = {}
                   THEN Len(groups) = 8
                   ELSE Cardinality({k \in 1..Len(groups) : groups[k] # <<>>}) <= 7)))

\* url.parseHost: [err, host].  What stands in brackets must be an IPv6
\* address.
ParseHost(str) ==
    With(str, LAMBDA host :
        With(IF HasPrefix(host, <<"[">>)
             THEN With(LastIndex(host, <<"]">>), LAMBDA i :
                       /\ i > 0
                       /\ ValidOptionalPort(From(host, i + 1))
                       /\ IsIPv6(SubSeq(host, 2, i - 1)))
             ELSE With(LastIndex(host, <<":">>), LAMBDA i :
                       i = 0 \/ ValidOptionalPort(From(host, i))),
             LAMBDA portOK :
                IF portOK /\ \A i \in 1..Len(host) : HostCharOK(host[i])
                THEN [err |-> FALSE, host |-> host]
                ELSE UrlBad))

\* url.validUserinfo
UserinfoCharOK(c) ==
    \/ IsLetter(c) \/ IsDigit(c)
    \/ c \in {"-", ".", "_", ":", "~", "!", "$", "&", "'", "(", ")", "*", "+", ",", ";", "=", "%", "@"}

\* url.parseAuthority: [err, host]
ParseAuthority(str) ==
    With(str, LAMBDA authority :
        With(LastIndex(authority, <<"@">>), LAMBDA i :
            With(ParseHost(From(authority, i + 1)), LAMBDA h :
                IF h.err THEN h
                ELSE IF i > 0 /\ \E k \in 1..(i-1) : ~UserinfoCharOK(authority[k])
                THEN UrlBad
                ELSE h)))

\* url.unescape(s, encodePath) fails on a '%' that two hex digits do not follow
EscapesOK(str) ==
    With(str, LAMBDA s :
        \A i \in 1..Len(s) :
            s[i] = "%" => (i + 2 <= Len(s) /\ IsHex(s[i+1]) /\ IsHex(s[i+2])))

\* url.parse from the authority on: rest starts with "//"
UrlAuthority(str, frag) ==
    With(From(str, 3), LAMBDA a0 :
        With(Index(a0, <<"/">>), LAMBDA i :
            With(ParseAuthority(IF i = 0 THEN a0 ELSE UpTo(a0, i - 1)), LAMBDA pa :
                IF pa.err \/ ~EscapesOK(IF i = 0 THEN <<>> ELSE From(a0, i)) \/ ~EscapesOK(frag)
                THEN UrlBad
                ELSE pa)))

\* url.parse after the scheme and the query were cut off: [err, host]
UrlRest(scheme, rest, frag) ==
    IF ~HasPrefix(rest, <<"/">>) /\ Len(scheme) > 0
    THEN (IF EscapesOK(frag) THEN UrlNoHost ELSE UrlBad)          \* an opaque URL
    ELSE IF ~HasPrefix(rest, <<"/">>) /\ Contains(Split(rest, "/")[1], <<":">>)
    THEN UrlBad                 \* first path segment in URL cannot contain colon
    ELSE IF HasPrefix(rest, <<"/", "/">>)
            /\ (Len(scheme) > 0 \/ ~HasPrefix(rest, <<"/", "/", "/">>))
    THEN UrlAuthority(rest, frag)
    ELSE IF ~EscapesOK(rest) \/ ~EscapesOK(frag) THEN UrlBad ELSE UrlNoHost

\* url.Parse, reduced to what NormalizeBackendHost reads: [err, host]
UrlParse(rawURL) ==
    With(rawURL, LAMBDA raw :
        With(Index(raw, <<"#">>), LAMBDA h :
            With2(IF h = 0 THEN raw ELSE UpTo(raw, h - 1),
                  IF h = 0 THEN <<>> ELSE From(raw, h + 1),
                  LAMBDA u, frag :
                    IF \E i \in 1..Len(u) : IsCTL(u[i]) THEN UrlBad
                    ELSE IF u = <<"*">> THEN (IF EscapesOK(frag) THEN UrlNoHost ELSE UrlBad)
                    ELSE With(GetScheme(u), LAMBDA sch :
                            IF sch.err THEN UrlBad
                            ELSE With(Split(sch.rest, "?")[1], LAMBDA rest :
                                    UrlRest(sch.scheme, rest, frag))))))

\* url.splitHostPort: [host, port].  The port is what follows the last
\* colon, when that is digits only; the brackets of the host are taken off.
UrlSplitHostPort(str) ==
    With(str, LAMBDA hostPort :
        With(LastIndex(hostPort, <<":">>), LAMBDA colon :
            With2(IF colon > 0 /\ ValidOptionalPort(From(hostPort, colon))
                  THEN UpTo(hostPort, colon - 1) ELSE hostPort,
                  IF colon > 0 /\ ValidOptionalPort(From(hostPort, colon))
                  THEN From(hostPort, colon + 1) ELSE <<>>,
                  LAMBDA host, port :
                    [host |-> IF HasPrefix(host, <<"[">>) /\ HasSuffix(host, <<"]">>)
                              THEN SubSeq(host, 2, Len(host) - 1) ELSE host,
                     port |-> port])))

\* (*URL).Hostname, (*URL).Port
Hostname(str) == UrlSplitHostPort(str).host
Port(str) == UrlSplitHostPort(str).port

\* net.JoinHostPort
JoinHostPort(h, p) ==
    With2(h, p, LAMBDA host, port :
        IF Contains(host, <<":">>) \/ Contains(host, <<"%">>)
        THEN <<"[">> \o host \o <<"]", ":">> \o port
        ELSE host \o <<":">> \o port)

SplitBad == [err |-> TRUE, host |-> <<>>, port |-> <<>>]

\* net.SplitHostPort: [err, host, port]
SplitHostPort(str) ==
    With(str, LAMBDA hostport :
        With(LastIndex(hostport, <<":">>), LAMBDA i :
            IF i = 0 THEN SplitBad
            ELSE IF hostport[1] = "["
            THEN With(Index(hostport, <<"]">>), LAMBDA end :
                    IF end = 0 \/ end + 1 # i THEN SplitBad
                    ELSE IF Contains(From(hostport, 2), <<"[">>)
                            \/ Contains(From(hostport, end + 1), <<"]">>)
                    THEN SplitBad
                    ELSE [err |-> FALSE, host |-> SubSeq(hostport, 2, end - 1),
                          port |-> From(hostport, i + 1)])
            ELSE IF Contains(UpTo(hostport, i - 1), <<":">>)
                    \/ Contains(hostport, <<"[">>) \/ Contains(hostport, <<"]">>)
            THEN SplitBad
            ELSE [err |-> FALSE, host |-> UpTo(hostport, i - 1),
                  port |-> From(hostport, i + 1)]))

Port80 == <<"8", "0">>
Port443 == <<"4", "4", "3">>
SchemeSep == <<":", "/", "/">>
HttpScheme == <<"h", "t", "t", "p">>

\* a normalization that takes 80 for the only default port
HostAndPort_Keeps443(h, p) ==
    With2(ToLower(TrimSpace(h)), TrimSpace(p), LAMBDA host, port :
        IF host = <<>> THEN <<>>
        ELSE IF port = Port80 \/ port = <<>> THEN host
        ELSE JoinHostPort(host, port))

\* NormalizeBackendHost, once host and port are split: lowercase the host,
\* drop the default ports, join
HostAndPort(h, p) ==
    With2(ToLower(TrimSpace(h)), TrimSpace(p), LAMBDA host, port :
        IF host = <<>> THEN <<>>
        ELSE IF port = Port80 \/ port = Port443 \/ port = <<>> THEN host
        ELSE JoinHostPort(host, port))

\* NormalizeBackendHost, the fallback when url.Parse fails or finds no host
NormalizeFallback(s) ==
    With(Index(s, SchemeSep), LAMBDA i :
        With(TrimSpace(Split(IF i > 0 THEN From(s, i + 3) ELSE s, "/")[1]), LAMBDA raw :
            With(SplitHostPort(raw), LAMBDA hp :
                IF ~hp.err THEN HostAndPort(hp.host, hp.port)
                ELSE TrimSuffix(ToLower(raw), <<".">>))))

\* NormalizeBackendHost: canonical "hostname[:port]", "" when there is none
NormalizeBackendHost(input) ==
    With(TrimSpace(input), LAMBDA s :
        IF s = <<>> THEN <<>>
        ELSE With(UrlParse(IF Contains(s, SchemeSep) THEN s ELSE HttpScheme \o SchemeSep \o s),
                  LAMBDA u :
                    IF ~u.err /\ u.host # <<>>
                    THEN HostAndPort(Hostname(u.host), Port(u.host))
                    ELSE NormalizeFallback(s)))

-----------------------------------------------------------------------------
(* qa/requests/canonical.go *)

AppPrefix == <<"A","P","P",":"," ">>
AudPrefix == <<"A","U","D",":"," ">>
TSPrefix == <<"T","S",":"," ">>
ChPrefix == <<"C","H","A","L","L","E","N","G","E",":"," ">>
UserPrefix == <<"U","S","E","R",":"," ">>
DevPrefix == <<"D","E","V","I","C","E",":"," ">>
BodyPrefix == <<"B","O","D","Y","-","S","H","A","2","5","6",":"," ">>

\* len(bodyHex) != 64
HashLen == 64

\* the line count ParseCanonicalString compares len(lines) with
WantLines == 8

\* hex.DecodeString succeeds: an even number of hexadecimal digits
HexDecodeOK(str) ==
    With(str, LAMBDA s : Len(s) % 2 = 0 /\ \A i \in 1..Len(s) : IsHex(s[i]))

CanonBad == [err |-> TRUE, s |-> <<>>]

\* CanonicalString: [err, s]
CanonicalString(x) ==
    With(ToLower(TrimSpace(x.BodySHA256Hex)), LAMBDA bodyHex :
        IF bodyHex = <<>> THEN CanonBad
        ELSE IF Len(bodyHex) # HashLen THEN CanonBad
        ELSE IF ~HexDecodeOK(bodyHex) THEN CanonBad
        ELSE With(NormalizeBackendHost(x.BackendHost), LAMBDA aud :
                IF aud = <<>> THEN CanonBad
                ELSE [err |-> FALSE,
                      s   |-> Join(<< ToUpper(x.Method),
                                      x.Path,
                                      AppPrefix \o x.AppID,
                                      AudPrefix \o aud,
                                      TSPrefix \o Itoa(x.TS),
                                      ChPrefix \o x.ChallengeID,
                                      UserPrefix \o x.UserID,
                                      DevPrefix \o x.DeviceID,
                                      BodyPrefix \o bodyHex >>, "\n")]))

\* uuid.Parse: the 32 hex digits of s, or <<>> when s is no UUID.  It takes
\* the hyphenated form, that form after "urn:uuid:" or between two
\* characters, and the bare 32 digits.
UrnPrefix == <<"u","r","n",":","u","u","i","d",":">>
UuidHyphens == {9, 14, 19, 24}
UuidDigits(str) ==
    With(str, LAMBDA s0 :
        With(IF Len(s0) = 45 /\ ToLower(UpTo(s0, 9)) = UrnPrefix THEN From(s0, 10)
             ELSE IF Len(s0) = 38 THEN UpTo(From(s0, 2), 36)
             ELSE s0, LAMBDA s :
            With(IF Len(s) = 36 /\ (\A i \in UuidHyphens : s[i] = "-")
                 THEN SelectSeq([i \in 1..36 |-> IF i \in UuidHyphens THEN "" ELSE s[i]],
                                LAMBDA c : c # "")
                 ELSE IF Len(s) = 32 /\ Len(s0) = 32 THEN s
                 ELSE <<>>, LAMBDA hex :
                IF \A i \in 1..Len(hex) : IsHex(hex[i]) THEN ToLower(hex) ELSE <<>>)))

\* uuid.UUID.String: the hyphenated lower-case form of 32 hex digits
UuidString(hex) ==
    With(hex, LAMBDA h :
        UpTo(h, 8) \o <<"-">> \o UpTo(From(h, 9), 4) \o <<"-">> \o UpTo(From(h, 13), 4)
            \o <<"-">> \o UpTo(From(h, 17), 4) \o <<"-">> \o From(h, 21))

\* ValidateUUIDv4: [err, s]
ValidateUUIDv4(str) ==
    With(UuidDigits(TrimSpace(str)), LAMBDA hex :
        IF hex = <<>> THEN [err |-> TRUE, s |-> <<>>]
        ELSE IF hex = Rep("0", 32) THEN [err |-> TRUE, s |-> <<>>]
        ELSE IF hex[13] # "4" THEN [err |-> TRUE, s |-> <<>>]
        ELSE [err |-> FALSE, s |-> UuidString(hex)])

NoFields == [Method |-> <<>>, Path |-> <<>>, AppID |-> <<>>, BackendHost |-> <<>>,
             TS |-> 0, ChallengeID |-> <<>>, UserID |-> <<>>, DeviceID |-> <<>>,
             BodySHA256 |-> <<>>]

\* the three ways a call of ParseCanonicalString ends: a *ParsedCanonical, an
\* error, or a run-time panic (an index out of range)
ParseOK(f) == [kind |-> "ok", f |-> f]
ParseErr == [kind |-> "err", f |-> NoFields]
ParsePanic == [kind |-> "panic", f |-> NoFields]

\* lines[k] of the code (k from 0), which panics unless k < len(lines)
InRange(lines, k) == k < Len(lines)
At(lines, k) == lines[k + 1]
\* strings.TrimSpace(strings.TrimPrefix(lines[k], prefix))
Field(lines, k, prefix) == TrimSpace(TrimPrefix(At(lines, k), prefix))

\* ParseCanonicalString, after the split into lines
ParseLines(lines) ==
    IF Len(lines) # WantLines THEN ParseErr
    ELSE IF ~InRange(lines, 0) \/ ~InRange(lines, 1) \/ ~InRange(lines, 2) THEN ParsePanic
    ELSE IF ~HasPrefix(At(lines, 2), AppPrefix) THEN ParseErr
    ELSE IF ~InRange(lines, 3) THEN ParsePanic
    ELSE IF ~HasPrefix(At(lines, 3), AudPrefix) THEN ParseErr
    ELSE IF ~InRange(lines, 4) THEN ParsePanic
    ELSE IF ~HasPrefix(At(lines, 4), TSPrefix) THEN ParseErr
    ELSE With(ParseInt(Field(lines, 4, TSPrefix)), LAMBDA ts :
        IF ~ts.ok THEN ParseErr
        ELSE IF ~InRange(lines, 5) THEN ParsePanic
        ELSE IF ~HasPrefix(At(lines, 5), ChPrefix) THEN ParseErr
        ELSE IF ~InRange(lines, 6) THEN ParsePanic
        ELSE IF ~HasPrefix(At(lines, 6), UserPrefix) THEN ParseErr
        ELSE IF ~InRange(lines, 7) THEN ParsePanic
        ELSE IF ~HasPrefix(At(lines, 7), DevPrefix) THEN ParseErr
        ELSE IF ~InRange(lines, 8) THEN ParsePanic
        ELSE IF ~HasPrefix(At(lines, 8), BodyPrefix) THEN ParseErr
        ELSE ParseOK([Method      |-> TrimSpace(At(lines, 0)),
                      Path        |-> TrimSpace(At(lines, 1)),
                      AppID       |-> Field(lines, 2, AppPrefix),
                      BackendHost |-> Field(lines, 3, AudPrefix),
                      TS          |-> ts.n,
                      ChallengeID |-> Field(lines, 5, ChPrefix),
                      UserID      |-> Field(lines, 6, UserPrefix),
                      DeviceID    |-> Field(lines, 7, DevPrefix),
                      BodySHA256  |-> Field(lines, 8, BodyPrefix)]))

\* ParseCanonicalString: [kind, f]
ParseCanonicalString(s) == With(Split(TrimSpace(s), "\n"), ParseLines)

-----------------------------------------------------------------------------
(* The canonicalizer as a state machine: a signer canonicalizes a request,  *)
(* the text travels (and may be altered on the way), a verifier parses it.  *)

\* how many alterations of the text in flight a behaviour holds
MaxTamper == 1
\* the longest text, in lines, an alteration produces
MaxLines == 10

Methods == {<<"G","E","T">>, <<"p","o","s","t">>}
Paths == {<<"/">>, <<"/","a","?","x","=","1">>}
AppIDs == {<<"a","p","p","-","1">>, <<"a","\n","b">>}
Hosts == {<<"h">>, <<"E","X","A","M","P","L","E",".","c","o","m",":","4","4","3">>, <<"h",":","8">>, <<" ">>}
Timestamps == {0 - 5, 1700000000}
UuidV4A == <<"3","f","2","b","8","c","1","e","-","4","d","5","a","-","4","b","6","c","-","8","e","7","f","-","1","a","2","b","3","c","4","d","5","e","6","f">>
UuidV4B == <<"9","c","5","b","9","4","b","1","-","3","5","a","d","-","4","9","b","b","-","b","1","1","8","-","8","e","8","f","c","2","4","a","b","f","8","0">>
UuidV1 == <<"6","f","9","6","1","9","f","f","-","8","b","8","6","-","d","0","1","1","-","b","4","2","d","-","0","0","c","0","4","f","c","9","6","4","f","f">>
UuidNil == UuidString(Rep("0", 32))
BodyHashes == {Rep("a", HashLen), Rep("A", HashLen), Rep("a", HashLen - 1),
               Rep("g", HashLen), <<>>}

CanonicalInputs ==
    [Method : Methods, Path : Paths, AppID : AppIDs, BackendHost : Hosts,
     TS : Timestamps, ChallengeID : {UuidV4A, UuidV1, UuidNil}, UserID : {UuidV4B},
     DeviceID : {UuidV4A}, BodySHA256Hex : BodyHashes]

\* the zero value of CanonicalInput
ZeroInput == [Method |-> <<>>, Path |-> <<>>, AppID |-> <<>>, BackendHost |-> <<>>,
              TS |-> 0, ChallengeID |-> <<>>, UserID |-> <<>>, DeviceID |-> <<>>,
              BodySHA256Hex |-> <<>>]

NoCanon == [called |-> FALSE, err |-> FALSE, s |-> <<>>]
NoParse == [kind |-> "none", f |-> NoFields]

InitCanon ==
    /\ ci = ZeroInput
    /\ canon = NoCanon
    /\ wire = <<>>
    /\ tampered = 0
    /\ parsed = NoParse

\* the signer calls CanonicalString(x); the text it returns is sent
Canonicalize(x) ==
    /\ ~canon.called
    /\ ci' = x
    /\ \E r \in {CanonicalString(x)} :
        /\ canon' = [called |-> TRUE, err |-> r.err, s |-> r.s]
        /\ wire' = r.s
    /\ tampered' = 0
    /\ parsed' = NoParse
    /\ UNCHANGED otherThanCanon

\* the text in flight loses its last line
DropLastLine ==
    /\ tampered < MaxTamper
    /\ \E lines \in {Split(wire, "\n")} :
        /\ Len(lines) > 1
        /\ wire' = Join(SubSeq(lines, 1, Len(lines) - 1), "\n")
    /\ tampered' = tampered + 1
    /\ parsed' = NoParse
    /\ UNCHANGED <<ci, canon, otherThanCanon>>

\* the text in flight gains a line
AppendLine ==
    /\ tampered < MaxTamper
    /\ Len(Split(wire, "\n")) < MaxLines
    /\ wire' = wire \o <<"\n", "X">>
    /\ tampered' = tampered + 1
    /\ parsed' = NoParse
    /\ UNCHANGED <<ci, canon, otherThanCanon>>

\* line k of the text in flight loses its label
BreakLabel(k) ==
    /\ tampered < MaxTamper
    /\ \E lines \in {Split(wire, "\n")} :
        /\ k <= Len(lines)
        /\ lines[k] # <<"X">>
        /\ wire' = Join([lines EXCEPT ![k] = <<"X">>], "\n")
    /\ tampered' = tampered + 1
    /\ parsed' = NoParse
    /\ UNCHANGED <<ci, canon, otherThanCanon>>

\* the verifier calls ParseCanonicalString on the text that arrived
Parse ==
    /\ parsed.kind = "none"
    /\ parsed' = ParseCanonicalString(wire)
    /\ UNCHANGED <<ci, canon, wire, tampered, otherThanCanon>>

-----------------------------------------------------------------------------
(* Method and path validation (qa/requests/canonical.go) *)

\* allowedMethods
AllowedMethods ==
    {<<"G","E","T">>, <<"P","O","S","T">>, <<"P","U","T">>, <<"P","A","T","C","H">>,
     <<"D","E","L","E","T","E">>, <<"H","E","A","D">>, <<"O","P","T","I","O","N","S">>,
     <<"T","R","A","C","E">>, <<"C","O","N","N","E","C","T">>}

\* NormalizeAndValidateMethod: [err, s]
NormalizeAndValidateMethod(str) ==
    With(ToUpper(TrimSpace(str)), LAMBDA m :
        IF m = <<>> \/ m \notin AllowedMethods THEN [err |-> TRUE, s |-> <<>>]
        ELSE [err |-> FALSE, s |-> m])

\* the characters of codes 32 to 126, in order (three of them by name)
PrintableAscii ==
    <<" ","!","<quote>","#","$","%","&","'","(",")","*","+",",","-",".","/">>
    \o DigitChars \o <<":",";","<","=",">","?","@">> \o UpperChars
    \o <<"[","<backslash>","]","^","_","<backtick>">> \o LowerChars \o <<"{","|","}","~">>

\* the character of a byte; bytes that are no printable character and no
\* line break or tab stand as one mark
ByteChar(n) ==
    IF n >= 32 /\ n <= 126 THEN PrintableAscii[n - 31]
    ELSE IF n = 10 THEN "\n" ELSE IF n = 9 THEN "\t" ELSE IF n = 13 THEN "\r"
    ELSE "<byte>"

\* the value of a hex digit
HexDigits == DigitChars \o <<"a","b","c","d","e","f">>
HexValue(c) == IndexIn(ToLowerChar(c), HexDigits) - 1

\* url.unescape in path mode: every %XX becomes its byte: [err, s]
RECURSIVE Unescape(_)
Unescape(str) ==
    With(str, LAMBDA s :
        IF Len(s) = 0 THEN [err |-> FALSE, s |-> <<>>]
        ELSE IF s[1] # "%"
        THEN With(Unescape(Tail(s)), LAMBDA r :
                IF r.err THEN r ELSE [err |-> FALSE, s |-> <<s[1]>> \o r.s])
        ELSE IF Len(s) < 3 \/ ~IsHex(s[2]) \/ ~IsHex(s[3]) THEN [err |-> TRUE, s |-> <<>>]
        ELSE With(Unescape(From(s, 4)), LAMBDA r :
                IF r.err THEN r
                ELSE [err |-> FALSE,
                      s |-> <<ByteChar(16 * HexValue(s[2]) + HexValue(s[3]))>> \o r.s]))

\* url.ParseRequestURI for a text that starts with "/" and holds no control
\* character: [err, Path, RawQuery].  The query is cut off at the first "?"
\* and kept as it is; the path is unescaped.
ParseRequestURI(str) ==
    With(str, LAMBDA raw :
        With(Index(raw, <<"?">>), LAMBDA q :
            With2(IF q = 0 THEN raw ELSE UpTo(raw, q - 1),
                  IF q = 0 THEN <<>> ELSE From(raw, q + 1),
                  LAMBDA rest, query :
                    With(Unescape(rest), LAMBDA path :
                        IF path.err THEN [err |-> TRUE, Path |-> <<>>, RawQuery |-> <<>>]
                        ELSE [err |-> FALSE, Path |-> path.s, RawQuery |-> query]))))

\* collapseSlashes
RECURSIVE collapseSlashes(_)
collapseSlashes(str) ==
    With(str, LAMBDA s :
        IF Len(s) < 2 THEN s
        ELSE IF s[1] = "/" /\ s[2] = "/" THEN collapseSlashes(Tail(s))
        ELSE <<s[1]>> \o collapseSlashes(Tail(s)))

PathBad == [err |-> TRUE, s |-> <<>>]

\* NormalizeAndValidatePath(p, PathNormalizeOptions{CollapseSlashes: collapse}):
\* [err, s].  The texts of the model are ASCII, hence valid UTF-8.
NormalizeAndValidatePath(str, collapse) ==
    With(TrimSpace(str), LAMBDA p :
        IF p = <<>> THEN PathBad
        ELSE IF \E i \in 1..Len(p) : IsCTL(p[i]) THEN PathBad
        ELSE IF Contains(p, <<":", "/", "/">>) \/ HasPrefix(p, <<"/", "/">>) THEN PathBad
        ELSE IF Contains(p, <<"#">>) THEN PathBad
        ELSE IF ~HasPrefix(p, <<"/">>) THEN PathBad
        ELSE With(ParseRequestURI(p), LAMBDA u :
            IF u.err THEN PathBad
            ELSE With(IF collapse THEN collapseSlashes(u.Path) ELSE u.Path, LAMBDA pathOnly :
                    [err |-> FALSE,
                     s |-> IF u.RawQuery # <<>> THEN pathOnly \o <<"?">> \o u.RawQuery
                                                ELSE pathOnly])))

-----------------------------------------------------------------------------
(* Calls of the normalizers *)

\* The backend hosts given to NormalizeBackendHost are put together from a
\* scheme, a host, a port and what follows the authority.
HostSchemes == {<<>>, <<"h","t","t","p",":","/","/">>, <<"h","t","t","p","s",":","/","/">>}
HostNames == {<<>>, <<"h">>, <<"E","x",".","C","O","M">>, <<"e",".","c",".">>,
              <<"[",":",":","1","]">>, <<":",":","1">>}
HostPorts == {<<>>, <<"8","0">>, <<"4","4","3">>, <<"4","0","0","0">>}
HostTails == {<<>>, <<"/","f","o","o">>, <<"/","x","?","q","=","1","#","f">>}
HostParts == [scheme : HostSchemes, host : HostNames, port : HostPorts, tail : HostTails]

\* the text of a backend host
HostText(parts) ==
    parts.scheme \o parts.host
        \o (IF parts.port = <<>> THEN <<>> ELSE <<":">> \o parts.port) \o parts.tail

\* a CanonicalInput that is in order as far as the backend host
InputWithHost(h) ==
    [Method |-> <<"G","E","T">>, Path |-> <<"/">>, AppID |-> <<"a","p","p","-","1">>,
     BackendHost |-> h, TS |-> 0, ChallengeID |-> UuidV4A, UserID |-> UuidV4B,
     DeviceID |-> UuidV4A, BodySHA256Hex |-> Rep("a", HashLen)]

NoHostCall == [called |-> FALSE]

\* NormalizeBackendHost(HostText(parts)); again: what it makes of its own
\* result; canonErr: whether CanonicalString fails on this backend host
NormalizeHost(parts) ==
    /\ ~hostCall.called
    /\ \E in \in {HostText(parts)} :
       \E out \in {NormalizeBackendHost(in)} :
            hostCall' = [called |-> TRUE, parts |-> parts, in |-> in, out |-> out,
                         again |-> NormalizeBackendHost(out),
                         canonErr |-> CanonicalString(InputWithHost(in)).err]
    /\ UNCHANGED <<pathCall, signRet, seal, retry, otherThanCalls>>

\* the paths given to NormalizeAndValidatePath
PathInputs ==
    {<<"/">>, <<"/","a","?","x","=","1">>, <<"/","a","/","/","b","?","x","/","/","y">>,
     <<"/","a","%","3","F","b","?","x","=","1">>, <<"/","a","%","z","z">>,
     <<"/","a","?","x","=","%","z","z">>, <<"/","a","?">>, <<"/","a","?","x","?","y">>,
     <<" ","/","a","%","2","0","b"," ">>, <<"f","o","o">>, <<"/","/","x">>,
     <<"/","x","#","f">>, <<"/","x","\n">>, <<>>}

NoPathCall == [called |-> FALSE]

\* NormalizeAndValidatePath(in, PathNormalizeOptions{CollapseSlashes: collapse})
NormalizePath(in, collapse) ==
    /\ ~pathCall.called
    /\ \E r \in {NormalizeAndValidatePath(in, collapse)} :
            pathCall' = [called |-> TRUE, in |-> in, collapse |-> collapse,
                         err |-> r.err, out |-> r.s,
                         plain |-> NormalizeAndValidatePath(in, FALSE).s]
    /\ UNCHANGED <<hostCall, signRet, seal, retry, otherThanCalls>>

\* no normalizer called yet
InitNorm ==
    /\ hostCall = NoHostCall
    /\ pathCall = NoPathCall

-----------------------------------------------------------------------------
(* tpmdevice/tpmdevice.go: the device *)

\* the persistent handles of the modelled device are 1..NumHandles
NumHandles == 3
Handles == 1..NumHandles

\* defaultHandleStart (0x8100A001): the first handle of the modelled device
defaultHandleStart == 1
\* defaultHandleCount (32), scaled to the modelled device
defaultHandleCount == NumHandles

\* What a handle holds.  A primary key is derived from the owner seed and the
\* template, so CreatePrimary with the one template of createPrimarySigningKey
\* yields the same key, PrimaryKey, each time (tpm2Sealer.Unseal rebuilds its
\* storage parent the same way); ForeignKey is a P-256 key of another origin.
EmptySlot == [kind |-> "empty", pub |-> "none"]
RsaKey == [kind |-> "rsa", pub |-> "rsa"]
PrimaryKey == [kind |-> "ecc", pub |-> "primary"]
ForeignKey == [kind |-> "ecc", pub |-> "foreign"]
Objects == {EmptySlot, RsaKey, PrimaryKey, ForeignKey}

\* An error value, by the substrings its text holds (all isHandleEmptyErr reads).
NilErr == [nil |-> TRUE, handleText |-> FALSE, code0xb |-> FALSE, rcName |-> FALSE]
\* "handle 1, error code 0xb : the handle is not correct for the use"
HandleErr == [nil |-> FALSE, handleText |-> TRUE, code0xb |-> TRUE, rcName |-> FALSE]
\* any other failure of a command
DeviceErr == [nil |-> FALSE, handleText |-> FALSE, code0xb |-> FALSE, rcName |-> FALSE]

\* The ways the device can fail during one NewWithConfig call.
Faults ==
    {<<"open", 0>>, <<"create", 0>>, <<"readnew", 0>>, <<"keytype", 0>>,
     <<"evict", 0>>, <<"persist", 0>>, <<"flush", 0>>}
    \cup {<<"read", h>> : h \in Handles}

\* how many of them one call meets
MaxFaults == 1
FaultPlans == {F \in SUBSET Faults : Cardinality(F) <= MaxFaults}

\* A call's view of the device: st = [slots, transients, log].  The log holds
\* each command sent, the handle it names (0: the transient handle) and how it
\* ended.
Logged(st, cmd, h, out) ==
    [st EXCEPT !.log = Append(@, [cmd |-> cmd, h |-> h, out |-> out])]

\* tpm2.ReadPublic of persistent handle h: [st, err, obj]
ReadPublic(st, h, F) ==
    IF <<"read", h>> \in F
    THEN [st |-> Logged(st, "ReadPublic", h, "err"), err |-> DeviceErr, obj |-> EmptySlot]
    ELSE IF st.slots[h].kind = "empty"
    THEN [st |-> Logged(st, "ReadPublic", h, "empty"), err |-> HandleErr, obj |-> EmptySlot]
    ELSE [st |-> Logged(st, "ReadPublic", h, "ok"), err |-> NilErr, obj |-> st.slots[h]]

\* tpm2.EvictControl(rwc, auth, owner, h, h): removes the persistent object at h
EvictPersistent(st, h, F) ==
    IF <<"evict", 0>> \in F \/ st.slots[h].kind = "empty"
    THEN Logged(st, "EvictControl", h, "err")
    ELSE Logged([st EXCEPT !.slots[h] = EmptySlot], "EvictControl", h, "ok")

\* tpm2.EvictControl(rwc, auth, owner, transient, h): makes the transient object
\* obj persistent at h, which must be free: [st, err]
PersistAt(st, obj, h, F) ==
    IF <<"persist", 0>> \in F \/ st.slots[h].kind # "empty"
    THEN [st |-> Logged(st, "Persist", h, "err"), err |-> DeviceErr]
    ELSE [st |-> Logged([st EXCEPT !.slots[h] = obj], "Persist", h, "ok"), err |-> NilErr]

\* tpm2.FlushContext(rwc, transient); its error is dropped by every caller
FlushContext(st, F) ==
    IF <<"flush", 0>> \in F
    THEN Logged(st, "FlushContext", 0, "err")
    ELSE Logged([st EXCEPT !.transients = @ - 1], "FlushContext", 0, "ok")

\* tpm2.CreatePrimary with the signing template: [st, err, obj]
CreatePrimary(st, F) ==
    IF <<"create", 0>> \in F
    THEN [st |-> Logged(st, "CreatePrimary", 0, "err"), err |-> DeviceErr, obj |-> EmptySlot]
    ELSE [st  |-> Logged([st EXCEPT !.transients = @ + 1], "CreatePrimary", 0, "ok"),
          err |-> NilErr,
          obj |-> IF <<"keytype", 0>> \in F THEN RsaKey ELSE PrimaryKey]

\* tpm2.ReadPublic of the transient handle CreatePrimary returned: [st, err]
ReadPublicTransient(st, F) ==
    IF <<"readnew", 0>> \in F
    THEN [st |-> Logged(st, "ReadPublic", 0, "err"), err |-> DeviceErr]
    ELSE [st |-> Logged(st, "ReadPublic", 0, "ok"), err |-> NilErr]

-----------------------------------------------------------------------------
(* tpmdevice/tpmdevice.go: NewWithConfig *)

\* an isHandleEmptyErr that takes every error for the empty-handle error
isHandleEmptyErr_Any(err) == ~err.nil

isHandleEmptyErr(err) ==
    IF err.nil THEN FALSE
    ELSE err.handleText \/ err.code0xb \/ err.rcName

\* a publicToUncompressed that accepts no key
publicToUncompressed_Never(obj) == [ok |-> FALSE, pub |-> "none"]

\* publicToUncompressed: [ok, pub]
publicToUncompressed(obj) ==
    IF obj.kind = "ecc" THEN [ok |-> TRUE, pub |-> obj.pub]
    ELSE [ok |-> FALSE, pub |-> "none"]

\* what the open functions return: (Client, error)
NoClient == [ok |-> FALSE, handle |-> 0, pub |-> "none"]
NewClient(h, pub) == [ok |-> TRUE, handle |-> h, pub |-> pub]

KeyFailed(st) == [st |-> st, err |-> TRUE, obj |-> EmptySlot, pub |-> "none"]

\* createPrimarySigningKey: [st, err, obj, pub]
createPrimarySigningKey(st0, F) ==
    With(CreatePrimary(st0, F), LAMBDA c :
        IF ~c.err.nil THEN KeyFailed(c.st)
        ELSE With2(ReadPublicTransient(c.st, F), publicToUncompressed(c.obj), LAMBDA r, u :
                IF ~r.err.nil THEN KeyFailed(FlushContext(r.st, F))
                ELSE IF ~u.ok THEN KeyFailed(FlushContext(r.st, F))
                ELSE [st |-> r.st, err |-> FALSE, obj |-> c.obj, pub |-> u.pub]))

\* a Persisted that returns the client whether or not the key was persisted
Persisted_Anyway(e, handle, pub, F) ==
    [st |-> FlushContext(e.st, F), res |-> NewClient(handle, pub)]

\* createAndPersistAt once EvictControl has answered e: [st, res]
Persisted(e, handle, pub, F) ==
    IF ~e.err.nil THEN [st |-> FlushContext(e.st, F), res |-> NoClient]
    ELSE [st |-> FlushContext(e.st, F), res |-> NewClient(handle, pub)]

\* createAndPersistAt: [st, res]
createAndPersistAt(st0, cfg, handle, F) ==
    With(createPrimarySigningKey(st0, F), LAMBDA k :
        IF k.err THEN [st |-> k.st, res |-> NoClient]
        ELSE With(PersistAt(k.st, k.obj, handle, F), LAMBDA e :
                Persisted(e, handle, k.pub, F)))

\* a ForceNewAt that leaves the old object where it is
ForceNewAt_NoEvict(st, cfg, h, F) == createAndPersistAt(st, cfg, h, F)

\* the ForceNew branch: evict h, whatever comes of it, then create the key there
ForceNewAt(st, cfg, h, F) ==
    With(EvictPersistent(st, h, F), LAMBDA st1 : createAndPersistAt(st1, cfg, h, F))

\* a RememberEmpty that keeps the last empty handle seen
RememberEmpty_Last(firstEmpty, h) == h

\* if firstEmpty == nil { firstEmpty = &h }
RememberEmpty(firstEmpty, h) == IF firstEmpty = 0 THEN h ELSE firstEmpty

\* an AfterScan that creates a key even when it remembered no empty handle
AfterScan_Create(st, cfg, firstEmpty, F) ==
    createAndPersistAt(st, cfg, IF firstEmpty = 0 THEN defaultHandleStart ELSE firstEmpty, F)

\* pickOrCreateHandle after its loop
AfterScan(st, cfg, firstEmpty, F) ==
    IF firstEmpty = 0 THEN [st |-> st, res |-> NoClient]
    ELSE createAndPersistAt(st, cfg, firstEmpty, F)

\* pickOrCreateHandle, from slot start+i on; firstEmpty = 0 is the nil pointer
RECURSIVE pickFrom(_, _, _, _, _, _, _)
pickFrom(st0, cfg, start, count, i, firstEmpty, F) ==
    IF i >= count
    THEN AfterScan(st0, cfg, firstEmpty, F)
    ELSE With(ReadPublic(st0, start + i, F), LAMBDA r :
            With(publicToUncompressed(r.obj), LAMBDA u :
                IF r.err.nil
                THEN IF u.ok THEN [st |-> r.st, res |-> NewClient(start + i, u.pub)]
                     ELSE IF cfg.ForceNew THEN ForceNewAt(r.st, cfg, start + i, F)
                     ELSE pickFrom(r.st, cfg, start, count, i + 1, firstEmpty, F)
                ELSE IF isHandleEmptyErr(r.err)
                THEN pickFrom(r.st, cfg, start, count, i + 1,
                              RememberEmpty(firstEmpty, start + i), F)
                ELSE [st |-> r.st, res |-> NoClient]))

pickOrCreateHandle(st, cfg, start, count, F) ==
    pickFrom(st, cfg, start, count, 0, 0, F)

\* an openOrCreateAtHandle that replaces an incompatible key as ForceNew does
openOrCreateAtHandle_Replaces(st0, cfg, h, F) ==
    IF cfg.ForceNew
    THEN ForceNewAt(st0, cfg, h, F)
    ELSE With(ReadPublic(st0, h, F), LAMBDA r :
            With(publicToUncompressed(r.obj), LAMBDA u :
                IF r.err.nil
                THEN IF ~u.ok THEN ForceNewAt(r.st, cfg, h, F)
                     ELSE [st |-> r.st, res |-> NewClient(h, u.pub)]
                ELSE IF ~isHandleEmptyErr(r.err) THEN [st |-> r.st, res |-> NoClient]
                ELSE createAndPersistAt(r.st, cfg, h, F)))

\* openOrCreateAtHandle: [st, res]
openOrCreateAtHandle(st0, cfg, h, F) ==
    IF cfg.ForceNew
    THEN ForceNewAt(st0, cfg, h, F)
    ELSE With(ReadPublic(st0, h, F), LAMBDA r :
            With(publicToUncompressed(r.obj), LAMBDA u :
                IF r.err.nil
                THEN IF ~u.ok THEN [st |-> r.st, res |-> NoClient]
                     ELSE [st |-> r.st, res |-> NewClient(h, u.pub)]
                ELSE IF ~isHandleEmptyErr(r.err) THEN [st |-> r.st, res |-> NoClient]
                ELSE createAndPersistAt(r.st, cfg, h, F)))

\* the range NewWithConfig scans when cfg.Handle = 0
StartOf(cfg) == IF cfg.HandleStart = 0 THEN defaultHandleStart ELSE cfg.HandleStart
CountOf(cfg) == IF cfg.HandleCount = 0 THEN defaultHandleCount ELSE cfg.HandleCount

\* NewWithConfig: [opened, st, res]; opened: openTPM succeeded
NewWithConfigResult(st, cfg, goos, F) ==
    IF goos = "darwin" THEN [opened |-> FALSE, st |-> st, res |-> NoClient]
    ELSE IF <<"open", 0>> \in F THEN [opened |-> FALSE, st |-> st, res |-> NoClient]
    ELSE With(IF cfg.Handle # 0
              THEN openOrCreateAtHandle(st, cfg, cfg.Handle, F)
              ELSE pickOrCreateHandle(st, cfg, StartOf(cfg), CountOf(cfg), F),
              LAMBDA r : [opened |-> TRUE, st |-> r.st, res |-> r.res])

-----------------------------------------------------------------------------
(* The signer as a state machine: the process calls NewWithConfig once on a *)
(* device whose handles hold anything, then closes the client it got.       *)

\* how many calls of client.Close a behaviour holds
MaxCloses == 2

\* Config: one handle given, or a range inside the modelled device, or
\* nothing given (the default range)
Configs ==
    {c \in [Handle : 0..NumHandles, ForceNew : BOOLEAN,
            HandleStart : 0..NumHandles, HandleCount : 0..NumHandles] :
        IF c.Handle # 0 THEN c.HandleStart = 0 /\ c.HandleCount = 0
        ELSE /\ (c.HandleStart = 0) = (c.HandleCount = 0)
             /\ StartOf(c) + CountOf(c) - 1 <= NumHandles}

ZeroConfig == [Handle |-> 0, ForceNew |-> FALSE, HandleStart |-> 0, HandleCount |-> 0]

\* runtime.GOOS: NewWithConfig tells darwin from the rest
Platforms == {"linux", "darwin"}

\* what rwc.Close() returns: nil, os.ErrClosed, an error whose text holds
\* "file already closed", any other error
CloseErrors == {"nil", "ErrClosed", "file already closed", "other"}

NoSigner == [exists |-> FALSE, rwc |-> "nil", handle |-> 0, pub |-> "none"]
NoCall == [made |-> FALSE, cfg |-> ZeroConfig, goos |-> "linux",
           slots0 |-> [h \in Handles |-> EmptySlot], opened |-> FALSE, ok |-> FALSE]

InitTpm ==
    /\ slots \in [Handles -> Objects]
    /\ transients = 0
    /\ devOpen = FALSE
    /\ signer = NoSigner
    /\ call = NoCall
    /\ log = <<>>
    /\ closeRets = <<>>
    /\ devCloses = 0

\* a NewWithConfig that returns its error and leaves the session open
rwcOpenAfter_NoClose(opened, ok) == opened

\* whether the session openTPM gave is open when NewWithConfig returns: before
\* it returns the error of openOrCreateAtHandle or pickOrCreateHandle it calls
\* rwc.Close()
rwcOpenAfter(opened, ok) == opened /\ ok

\* NewWithConfig(ctx, cfg) on platform goos, the device failing as F says
Open(cfg, goos, F) ==
    /\ ~call.made
    /\ \E r \in {NewWithConfigResult([slots |-> slots, transients |-> transients,
                                      log |-> <<>>], cfg, goos, F)} :
        /\ call' = [made |-> TRUE, cfg |-> cfg, goos |-> goos, slots0 |-> slots,
                    opened |-> r.opened, ok |-> r.res.ok]
        /\ slots' = r.st.slots
        /\ transients' = r.st.transients
        /\ log' = r.st.log
        /\ devOpen' = rwcOpenAfter(r.opened, r.res.ok)
        /\ signer' = IF r.res.ok
                     THEN [exists |-> TRUE, rwc |-> "set",
                           handle |-> r.res.handle, pub |-> r.res.pub]
                     ELSE NoSigner
    /\ UNCHANGED <<closeRets, devCloses, otherThanTpm>>

\* what client.Close returns when rwc.Close() returned e
CloseReturn(e) ==
    IF e = "nil" THEN "nil"
    ELSE IF e = "ErrClosed" THEN "nil"
    ELSE IF e = "file already closed" THEN "nil"
    ELSE "error"

\* a Close that keeps the session in the client
RwcAfterClose_Kept(rwc) == rwc

\* the rwc field after client.Close called rwc.Close()
RwcAfterClose(rwc) == "nil"

\* client.Close(), rwc.Close() returning e when it is called
Close(e) ==
    /\ signer.exists
    /\ Len(closeRets) < MaxCloses
    /\ IF signer.rwc = "nil"
       THEN /\ closeRets' = Append(closeRets, "nil")
            /\ UNCHANGED <<signer, devOpen, devCloses>>
       ELSE /\ devCloses' = devCloses + 1
            /\ devOpen' = FALSE
            /\ signer' = [signer EXCEPT !.rwc = RwcAfterClose(@)]
            /\ closeRets' = Append(closeRets, CloseReturn(e))
    /\ UNCHANGED <<slots, transients, call, log, otherThanTpm>>

-----------------------------------------------------------------------------
(* tpmdevice/tpmdevice.go: client.Sign, called by goroutines that share one *)
(* client.  client has no lock: tpm2.Sign writes its command to c.rwc and   *)
(* then reads the response from it, and another goroutine can run between.  *)

\* how many goroutines call Sign
NumGoroutines == 2
Goroutines == 1..NumGoroutines

\* the messages they sign
Messages == {"m1", "m2"}

NoReturn == [kind |-> "none", by |-> 0]
\* Sign returned an error
SignError == [kind |-> "error", by |-> 0]
\* Sign returned R||S taken from the response to the command goroutine g sent
Signature(g) == [kind |-> "sig", by |-> g]

IdleGoroutine == [pc |-> "idle", msg |-> "none", ret |-> NoReturn]

\* a client as NewWithConfig returns it: the zero Config on an empty device
OpenedDefault ==
    NewWithConfigResult([slots |-> [h \in Handles |-> EmptySlot], transients |-> 0,
                         log |-> <<>>], ZeroConfig, "linux", {})

InitSign ==
    /\ gor = [g \in Goroutines |-> IdleGoroutine]
    /\ inflight = <<>>
    /\ submitted = <<>>
    /\ completed = <<>>

\* the state NewWithConfig leaves when it returned a client
InitOpened ==
    \E r \in {OpenedDefault} :
        /\ slots = r.st.slots
        /\ transients = r.st.transients
        /\ log = r.st.log
        /\ devOpen = TRUE
        /\ signer = [exists |-> TRUE, rwc |-> "set",
                     handle |-> r.res.handle, pub |-> r.res.pub]
        /\ call = [made |-> TRUE, cfg |-> ZeroConfig, goos |-> "linux",
                   slots0 |-> [h \in Handles |-> EmptySlot],
                   opened |-> TRUE, ok |-> TRUE]
        /\ closeRets = <<>>
        /\ devCloses = 0

Returned(g, r) ==
    /\ gor' = [gor EXCEPT ![g].pc = "done", ![g].ret = r]
    /\ completed' = Append(completed, g)

\* goroutine g calls c.Sign(m): the check of c.rwc and the digest
SignCall(g, m) ==
    /\ gor[g].pc = "idle"
    /\ submitted' = Append(submitted, g)
    /\ IF signer.rwc = "nil"
       THEN /\ gor' = [gor EXCEPT ![g] = [pc |-> "done", msg |-> m, ret |-> SignError]]
            /\ completed' = Append(completed, g)
       ELSE /\ gor' = [gor EXCEPT ![g] = [pc |-> "called", msg |-> m, ret |-> NoReturn]]
            /\ UNCHANGED completed
    /\ UNCHANGED <<inflight, otherThanSign>>

\* the session takes a command while another is unanswered (taken = TRUE),
\* or refuses it
SessionTakes == BOOLEAN

\* tpm2.Sign of goroutine g writes its command to c.rwc
SignWrite(g, taken) ==
    /\ gor[g].pc = "called"
    /\ IF ~devOpen \/ (inflight # <<>> /\ ~taken)
       THEN /\ Returned(g, SignError)
            /\ UNCHANGED inflight
       ELSE /\ gor' = [gor EXCEPT ![g].pc = "written"]
            /\ inflight' = Append(inflight, g)
            /\ UNCHANGED completed
    /\ UNCHANGED <<submitted, otherThanSign>>

\* what a read of c.rwc can hand goroutine g: the response to its own
\* command when that is the only one on the session; otherwise the response
\* to any command on the session, or an error
Responses(g) ==
    IF ~devOpen THEN {SignError}
    ELSE IF inflight = <<g>> THEN {Signature(g)}
    ELSE {Signature(inflight[i]) : i \in 1..Len(inflight)} \cup {SignError}

Without(s, g) == SelectSeq(s, LAMBDA x : x # g)

\* tpm2.Sign of goroutine g reads the response, and Sign returns
SignRead(g, r) ==
    /\ gor[g].pc = "written"
    /\ r \in Responses(g)
    /\ inflight' = Without(inflight, g)
    /\ Returned(g, r)
    /\ UNCHANGED <<submitted, otherThanSign>>

-----------------------------------------------------------------------------
(* encoding/base64: StdEncoding, as the envelope's fields are written and read *)

\* the alphabet of base64.StdEncoding
B64Chars == UpperChars \o LowerChars \o DigitChars \o <<"+", "/">>

\* the character of a 6-bit value, and back (0: not in the alphabet)
B64Char(v) == B64Chars[v + 1]
B64Value(c) == IndexIn(c, B64Chars) - 1
InB64(c) == IndexIn(c, B64Chars) > 0

\* EncodeGroup, were the padding left out (base64.RawStdEncoding)
EncodeGroup_Raw(group) ==
    With(group, LAMBDA b :
        IF Len(b) = 3
        THEN With(b[1] * 65536 + b[2] * 256 + b[3], LAMBDA n :
                <<B64Char(n \div 262144), B64Char((n \div 4096) % 64),
                  B64Char((n \div 64) % 64), B64Char(n % 64)>>)
        ELSE IF Len(b) = 2
        THEN With((b[1] * 256 + b[2]) * 4, LAMBDA n :
                <<B64Char(n \div 4096), B64Char((n \div 64) % 64), B64Char(n % 64)>>)
        ELSE With(b[1] * 16, LAMBDA n :
                <<B64Char(n \div 64), B64Char(n % 64)>>))

\* one group of up to three bytes, encoded
EncodeGroup(group) ==
    With(group, LAMBDA b :
        IF Len(b) = 3
        THEN With(b[1] * 65536 + b[2] * 256 + b[3], LAMBDA n :
                <<B64Char(n \div 262144), B64Char((n \div 4096) % 64),
                  B64Char((n \div 64) % 64), B64Char(n % 64)>>)
        ELSE IF Len(b) = 2
        THEN With((b[1] * 256 + b[2]) * 4, LAMBDA n :
                <<B64Char(n \div 4096), B64Char((n \div 64) % 64), B64Char(n % 64), "=">>)
        ELSE With(b[1] * 16, LAMBDA n :
                <<B64Char(n \div 64), B64Char(n % 64), "=", "=">>))

\* base64.StdEncoding.EncodeToString
RECURSIVE EncodeToString(_)
EncodeToString(bytes) ==
    With(bytes, LAMBDA b :
        IF Len(b) = 0 THEN <<>>
        ELSE IF Len(b) <= 3 THEN EncodeGroup(b)
        ELSE EncodeGroup(SubSeq(b, 1, 3)) \o EncodeToString(SubSeq(b, 4, Len(b))))

DecodeBad == [ok |-> FALSE, bytes |-> <<>>]

\* four characters, decoded; last: no character follows them.  Padding is
\* taken in the last group only, and the bits of the last character that
\* reach no byte are not looked at (StdEncoding is not Strict).
DecodeGroup(group, last) ==
    With(group, LAMBDA q :
        IF InB64(q[1]) /\ InB64(q[2]) /\ InB64(q[3]) /\ InB64(q[4])
        THEN With(B64Value(q[1]) * 262144 + B64Value(q[2]) * 4096
                  + B64Value(q[3]) * 64 + B64Value(q[4]), LAMBDA n :
                [ok |-> TRUE, bytes |-> <<n \div 65536, (n \div 256) % 256, n % 256>>])
        ELSE IF last /\ InB64(q[1]) /\ InB64(q[2]) /\ InB64(q[3]) /\ q[4] = "="
        THEN With(B64Value(q[1]) * 4096 + B64Value(q[2]) * 64 + B64Value(q[3]), LAMBDA n :
                [ok |-> TRUE, bytes |-> <<n \div 1024, (n \div 4) % 256>>])
        ELSE IF last /\ InB64(q[1]) /\ InB64(q[2]) /\ q[3] = "=" /\ q[4] = "="
        THEN With(B64Value(q[1]) * 64 + B64Value(q[2]), LAMBDA n :
                [ok |-> TRUE, bytes |-> <<n \div 16>>])
        ELSE DecodeBad)

RECURSIVE DecodeGroups(_)
DecodeGroups(text) ==
    With(text, LAMBDA t :
        IF Len(t) = 0 THEN [ok |-> TRUE, bytes |-> <<>>]
        ELSE IF Len(t) < 4 THEN DecodeBad
        ELSE With(DecodeGroup(SubSeq(t, 1, 4), Len(t) = 4), LAMBDA g :
                IF ~g.ok THEN DecodeBad
                ELSE With(DecodeGroups(SubSeq(t, 5, Len(t))), LAMBDA rest :
                        IF ~rest.ok THEN DecodeBad
                        ELSE [ok |-> TRUE, bytes |-> g.bytes \o rest.bytes])))

\* base64.StdEncoding.DecodeString: [ok, bytes]; line breaks are skipped
DecodeString(text) ==
    DecodeGroups(SelectSeq(text, LAMBDA c : c \notin {"\r", "\n"}))

-----------------------------------------------------------------------------
(* cryptoctx (tpmdevice/windows_tpm.go): the PQ key envelope *)

\* A runtimeImpl, as far as the envelope goes: rt = [dev, label, path, scheme]:
\* the TPM its sealer talks to, pqLabel, pqPath and the signature scheme.

\* the TPMs
Devices == {1, 2}

\* "quantumauth:cryptoctx:pq:v1|"
AadPrefix == <<"q","u","a","n","t","u","m","a","u","t","h",":","c","r","y","p","t","o",
               "c","t","x",":","p","q",":","v","1","|">>

\* the working directory of the process
Cwd == <<"/", "w">>

\* filepath.Abs, for the paths of the model, which are clean
Abs(path) ==
    With(path, LAMBDA p : IF HasPrefix(p, <<"/">>) THEN p ELSE Cwd \o <<"/">> \o p)

\* aad, were the path left out of it
aad_LabelOnly(rt) == AadPrefix \o rt.label

\* runtimeImpl.aad
aad(rt) == AadPrefix \o rt.label \o <<"|">> \o Abs(rt.path)

\* The bytes that the random and the cryptographic steps of one
\* EnsurePQKeypair call, the call of process p, produce.  Their meaning is
\* kept in the artifact the call leaves (below); the sizes are scaled down,
\* keeping the size modulo 3 that decides the shape of the base64 text.

\* the characters labels are made of, for the byte a character is stored as
LabelChars == LowerChars \o DigitChars \o <<"|">>
CharByte(c) == IndexIn(c, LabelChars)

\* Sealer.Seal: the blob holds the label, as sealedBlobV1 does
SealedBytes(p, rt) == <<rt.dev, p>> \o [i \in 1..Len(rt.label) |-> CharByte(rt.label[i])]

\* the nonce: 24 random bytes, here 3
NonceBytes(p) == <<p, 0, 7>>

\* the schemes, and the length of the ciphertext of the payload modulo 3:
\* ML-DSA-44 gives 5204 bytes, ML-DSA-65 gives 8016
Schemes == {"ML-DSA-44", "ML-DSA-65"}
CtLen(scheme) == IF scheme = "ML-DSA-44" THEN 2 ELSE 3

\* aead.Seal: the ciphertext
CtBytes(p, rt) == [i \in 1..CtLen(rt.scheme) |-> IF i = 1 THEN p ELSE 9]

\* scheme.GenerateKey, marshalled: the key pair of process p
PubBytes(p) == <<100 + p>>
PrivBytes(p) == <<200 + p>>

\* what one EnsurePQKeypair call made: who, for which runtime, and the bytes
Artifact(p, rt) ==
    [p |-> p, dev |-> rt.dev, label |-> rt.label, path |-> Abs(rt.path), aad |-> aad(rt),
     sealed |-> SealedBytes(p, rt), nonce |-> NonceBytes(p), ct |-> CtBytes(p, rt),
     pub |-> PubBytes(p), priv |-> PrivBytes(p)]

\* pqEnvelopeV1, as writeEncryptedPQKeypair fills it
EnvelopeOf(a) ==
    [V |-> 1,
     SealedDEK_B64 |-> EncodeToString(a.sealed),
     NonceB64 |-> EncodeToString(a.nonce),
     CTB64 |-> EncodeToString(a.ct),
     Label |-> a.label]

\* what a file holds: an envelope, or bytes that are no JSON document (a
\* file created and not yet written, or written in part)
Partial == [kind |-> "partial"]
Complete(env) == [kind |-> "env", env |-> env]
\* no file at the path
Missing == [kind |-> "missing"]

\* Sealer.Unseal on TPM dev under label: [ok, p], p the call whose DEK it
\* is.  The blob loads only in the TPM that sealed it and only as it was made.
Unseal(dev, label, blob, arts) ==
    With(blob, LAMBDA b :
        With({a \in arts : a.sealed = b}, LAMBDA as :
            IF as = {} THEN [ok |-> FALSE, p |-> 0]
            ELSE With(CHOOSE a \in as : TRUE, LAMBDA a :
                IF a.label # <<>> /\ a.label # label THEN [ok |-> FALSE, p |-> 0]
                ELSE IF a.dev # dev THEN [ok |-> FALSE, p |-> 0]
                ELSE [ok |-> TRUE, p |-> a.p])))

\* aead.Open with the DEK of call p: [ok, pub, priv].  It opens what
\* aead.Seal made with that key, nonce and additional data, and nothing else.
AeadOpen(p, nonce, ct, ad, arts) ==
    With({a \in arts : a.p = p /\ a.nonce = nonce /\ a.ct = ct /\ a.aad = ad}, LAMBDA as :
        IF as = {} THEN [ok |-> FALSE, pub |-> <<>>, priv |-> <<>>]
        ELSE With(CHOOSE a \in as : TRUE, LAMBDA a :
                [ok |-> TRUE, pub |-> a.pub, priv |-> a.priv]))

\* What loadPQKeypair returns: kind "ok" with the key pair, or the error:
\* "missing" (ErrMissingPQKeyFile), "unmarshal" and "version" (errors made
\* with fmt.Errorf), "corrupt" (ErrCorruptOrTampered).  live: the buffers
\* with secret bytes that are not zero when it returns.
Loaded(kind, live) == [kind |-> kind, pub |-> <<>>, priv |-> <<>>, live |-> live]
LoadedKeys(pub, priv) ==
    [kind |-> "ok", pub |-> pub, priv |-> priv, live |-> {"plain", "priv"}]

\* loadPQKeypair from the DEK on
OpenPayload(rt, p, nonce, ct, arts) ==
    With(AeadOpen(p, nonce, ct, aad(rt), arts), LAMBDA plain :
        IF ~plain.ok THEN Loaded("corrupt", {})
        ELSE IF Len(plain.pub) = 0 \/ Len(plain.priv) = 0
        THEN Loaded("corrupt", {"plain", "priv"})
        ELSE LoadedKeys(plain.pub, plain.priv))

\* loadPQKeypair once the envelope is unmarshalled
LoadEnvelope(rt, env, arts) ==
    IF env.V # 1 THEN Loaded("version", {})
    ELSE IF env.Label # <<>> /\ env.Label # rt.label THEN Loaded("corrupt", {})
    ELSE With(DecodeString(env.SealedDEK_B64), LAMBDA sealed :
        IF ~sealed.ok THEN Loaded("corrupt", {})
        ELSE With(DecodeString(env.NonceB64), LAMBDA nonce :
            IF ~nonce.ok THEN Loaded("corrupt", {})
            ELSE With(DecodeString(env.CTB64), LAMBDA ct :
                IF ~ct.ok THEN Loaded("corrupt", {})
                ELSE With(Unseal(rt.dev, rt.label, sealed.bytes, arts), LAMBDA dek :
                    IF ~dek.ok THEN Loaded("corrupt", {})
                    ELSE OpenPayload(rt, dek.p, nonce.bytes, ct.bytes, arts)))))

\* loadPQKeypair, content being what os.ReadFile(r.pqPath) found
loadPQKeypair(rt, content, arts) ==
    IF content.kind = "missing" THEN Loaded("missing", {})
    ELSE IF content.kind = "partial" THEN Loaded("unmarshal", {})
    ELSE LoadEnvelope(rt, content.env, arts)

\* PQPublicKeyB64: the key pair it loaded is not zeroized
PQPublicKeyB64(rt, content, arts) == loadPQKeypair(rt, content, arts)

\* SignPQB64: defer kp.zeroize()
SignPQB64(rt, content, arts) ==
    With(loadPQKeypair(rt, content, arts), LAMBDA kp :
        IF kp.kind # "ok" THEN kp ELSE [kp EXCEPT !.live = @ \ {"priv"}])

-----------------------------------------------------------------------------
(* The file system, and EnsurePQKeypair step by step *)

\* the processes that hold a runtimeImpl
NumProcs == 2
Procs == 1..NumProcs

\* configured key file paths: a relative one, the same file by its absolute
\* name, and another file
KeyFilePaths == {<<"a">>, <<"/", "w", "/", "a">>, <<"/", "b">>}
PQLabels == {<<"v">>, <<"w", "2">>}
Runtimes == [dev : Devices, label : PQLabels, path : KeyFilePaths, scheme : Schemes]

\* tmp := path + ".tmp"
TmpPath(path) == path \o <<".", "t", "m", "p">>

\* the directory entry a path resolves to
Name(path) == Abs(path)
Names == {Name(p) : p \in KeyFilePaths} \cup {Name(TmpPath(p)) : p \in KeyFilePaths}

\* a name that names nothing; a file is known by the process that created it
NoFile == 0

\* what is at a path: the content os.ReadFile would return
ContentAt(path, d, f) ==
    With(d[Name(path)], LAMBDA id : IF id = NoFile THEN Missing ELSE f[id])

\* ens[p]: pc, the step of EnsurePQKeypair that process p is about to take
\* ("off": p never calls it); saw, what its os.Stat found; fd, the file its
\* os.WriteFile has open; ret, what the call returned
NotCalled == [pc |-> "idle", saw |-> "none", fd |-> NoFile, ret |-> "none"]
NeverCalls == [pc |-> "off", saw |-> "none", fd |-> NoFile, ret |-> "none"]

\* the call of process p returns r
EnsureReturns(p, r) == ens' = [ens EXCEPT ![p].pc = "done", ![p].ret = r]

\* EnsureStat, were the keys generated and sealed before the file is looked for
EnsureStat_SealsFirst(p, ok) ==
    /\ ens[p].pc = "idle"
    /\ IF dir[Name(rts[p].path)] # NoFile
       THEN ens' = [ens EXCEPT ![p].pc = "done", ![p].saw = "present", ![p].ret = "nil"]
       ELSE ens' = [ens EXCEPT ![p].pc = "remove", ![p].saw = "missing"]
    /\ \E a \in {Artifact(p, rts[p])} : made' = made \cup {a}
    /\ UNCHANGED <<rts, dir, files, loaded, edits, otherThanPq>>

\* EnsureStat, were a file that is present written again
EnsureStat_Overwrites(p, ok) ==
    /\ ens[p].pc = "idle"
    /\ ens' = [ens EXCEPT ![p].pc = "remove",
                          ![p].saw = IF dir[Name(rts[p].path)] # NoFile THEN "present"
                                                                        ELSE "missing"]
    /\ \E a \in {Artifact(p, rts[p])} : made' = made \cup {a}
    /\ UNCHANGED <<rts, dir, files, loaded, edits, otherThanPq>>

\* EnsurePQKeypair down to the call of atomicWriteFile: os.Stat, and if the
\* file is missing, key generation and writeEncryptedPQKeypair's sealing and
\* encryption (ok: whether these succeed).  Nothing of this is on disk yet.
EnsureStat(p, ok) ==
    /\ ens[p].pc = "idle"
    /\ IF dir[Name(rts[p].path)] # NoFile
       THEN /\ ens' = [ens EXCEPT ![p].pc = "done", ![p].saw = "present", ![p].ret = "nil"]
            /\ made' = made
       ELSE IF ~ok
       THEN /\ ens' = [ens EXCEPT ![p].pc = "done", ![p].saw = "missing", ![p].ret = "error"]
            /\ made' = made
       ELSE /\ ens' = [ens EXCEPT ![p].pc = "remove", ![p].saw = "missing"]
            /\ \E a \in {Artifact(p, rts[p])} : made' = made \cup {a}
    /\ UNCHANGED <<rts, dir, files, loaded, edits, otherThanPq>>

\* atomicWriteFile: _ = os.Remove(tmp)
EnsureRemoveTmp(p) ==
    /\ ens[p].pc = "remove"
    /\ dir' = [dir EXCEPT ![Name(TmpPath(rts[p].path))] = NoFile]
    /\ ens' = [ens EXCEPT ![p].pc = "open"]
    /\ UNCHANGED <<rts, files, made, loaded, edits, otherThanPq>>

\* os.WriteFile(tmp, ...): the open with O_CREATE|O_TRUNC.  It creates the
\* file, or empties the file that is there, whoever made it.
EnsureOpenTmp(p, ok) ==
    /\ ens[p].pc = "open"
    /\ IF ~ok
       THEN /\ EnsureReturns(p, "error")
            /\ UNCHANGED <<dir, files>>
       ELSE \E tmp \in {Name(TmpPath(rts[p].path))} :
            \E id \in {IF dir[tmp] = NoFile THEN p ELSE dir[tmp]} :
                /\ dir' = [dir EXCEPT ![tmp] = id]
                /\ files' = [files EXCEPT ![id] = Partial]
                /\ ens' = [ens EXCEPT ![p].pc = "write", ![p].fd = id]
    /\ UNCHANGED <<rts, made, loaded, edits, otherThanPq>>

\* os.WriteFile(tmp, ...): the write and the close.  When it fails the file
\* stays as far as it was written, and atomicWriteFile returns the error.
EnsureWriteTmp(p, ok) ==
    /\ ens[p].pc = "write"
    /\ IF ~ok
       THEN /\ EnsureReturns(p, "error")
            /\ files' = files
       ELSE \E env \in {EnvelopeOf(Artifact(p, rts[p]))} :
                /\ files' = [files EXCEPT ![ens[p].fd] = Complete(env)]
                /\ ens' = [ens EXCEPT ![p].pc = "rename"]
    /\ UNCHANGED <<rts, dir, made, loaded, edits, otherThanPq>>

\* os.Rename(tmp, path): whatever tmp names now takes the place of path
EnsureRename(p, ok) ==
    /\ ens[p].pc = "rename"
    /\ \E tmp \in {Name(TmpPath(rts[p].path))} :
        IF ok /\ dir[tmp] # NoFile
        THEN /\ dir' = [dir EXCEPT ![Name(rts[p].path)] = dir[tmp], ![tmp] = NoFile]
             /\ EnsureReturns(p, "nil")
        ELSE /\ dir' = dir
             /\ ens' = [ens EXCEPT ![p].pc = "cleanup"]
    /\ UNCHANGED <<rts, files, made, loaded, edits, otherThanPq>>

\* after a failed rename: _ = os.Remove(tmp), and the error is returned
EnsureCleanup(p) ==
    /\ ens[p].pc = "cleanup"
    /\ dir' = [dir EXCEPT ![Name(TmpPath(rts[p].path))] = NoFile]
    /\ EnsureReturns(p, "error")
    /\ UNCHANGED <<rts, files, made, loaded, edits, otherThanPq>>

\* PQPublicKeyB64 and SignPQB64 through runtime rt: os.ReadFile and the rest
\* of loadPQKeypair on what it read
NoLoad == [op |-> "none"]
LoadOps == {"publicKey", "sign"}
Load(rt, op) ==
    /\ \E content \in {ContentAt(rt.path, dir, files)} :
       \E res \in {IF op = "sign" THEN SignPQB64(rt, content, made)
                                  ELSE PQPublicKeyB64(rt, content, made)} :
            loaded' = [op |-> op, rt |-> rt, content |-> content, res |-> res]
    /\ UNCHANGED <<rts, dir, files, ens, made, edits, otherThanPq>>

\* the runtime that the racing processes share
SharedRt == [dev |-> 1, label |-> <<"v">>, path |-> <<"a">>, scheme |-> "ML-DSA-65"]

NoEdit == [moved |-> FALSE, changed |-> "none"]

\* no key file yet, no call made
InitPq ==
    /\ rts = [p \in Procs |-> SharedRt]
    /\ dir = [n \in Names |-> NoFile]
    /\ files = [p \in Procs |-> Missing]
    /\ ens = [p \in Procs |-> NotCalled]
    /\ made = {}
    /\ loaded = NoLoad
    /\ edits = NoEdit

-----------------------------------------------------------------------------
(* The key file in other hands: what loadPQKeypair may find at its path *)

\* the process that wrote the key file
Writer == 1

\* the key file as the writer's EnsurePQKeypair left it: not yet touched
Written ==
    /\ ens[Writer].pc = "done"
    /\ ens[Writer].ret = "nil"
    /\ dir[Name(rts[Writer].path)] = Writer

\* the base64 fields of the envelope
B64Fields == {"SealedDEK_B64", "NonceB64", "CTB64"}

\* how a character of the file is changed: into the next one of the
\* alphabet, into one further away, into one that is not of the alphabet
Changes == {"next", "far", "invalid"}
Replacement(c, how) ==
    IF how = "invalid" THEN "!"
    ELSE IF c = "=" THEN (IF how = "next" THEN "A" ELSE "B")
    ELSE IF how = "next" THEN B64Char((B64Value(c) + 1) % 64)
    ELSE B64Char((B64Value(c) + 32) % 64)

\* the positions of a base64 field
FieldPositions == UNION {1..Len(EncodeToString(SealedBytes(Writer, rt))) : rt \in Runtimes}

\* one character of one base64 field of the file is changed
TamperChar(field, i, how) ==
    /\ Written
    /\ edits = NoEdit
    /\ i \in 1..Len(files[Writer].env[field])
    /\ \E c \in {Replacement(files[Writer].env[field][i], how)} :
            files' = [files EXCEPT ![Writer].env[field][i] = c]
    /\ edits' = [edits EXCEPT !.changed = "char"]
    /\ UNCHANGED <<rts, dir, ens, made, loaded, otherThanPq>>

\* the "v" of the file is changed
TamperVersion(v) ==
    /\ Written
    /\ edits = NoEdit
    /\ v # files[Writer].env.V
    /\ files' = [files EXCEPT ![Writer].env.V = v]
    /\ edits' = [edits EXCEPT !.changed = "version"]
    /\ UNCHANGED <<rts, dir, ens, made, loaded, otherThanPq>>

\* the "label" of the file is changed
TamperLabel(l) ==
    /\ Written
    /\ edits = NoEdit
    /\ l # files[Writer].env.Label
    /\ files' = [files EXCEPT ![Writer].env.Label = l]
    /\ edits' = [edits EXCEPT !.changed = "label"]
    /\ UNCHANGED <<rts, dir, ens, made, loaded, otherThanPq>>

\* the file is moved to another path
Move(to) ==
    /\ Written
    /\ edits = NoEdit
    /\ Name(to) # Name(rts[Writer].path)
    /\ dir' = [dir EXCEPT ![Name(to)] = Writer, ![Name(rts[Writer].path)] = NoFile]
    /\ edits' = [edits EXCEPT !.moved = TRUE]
    /\ UNCHANGED <<rts, files, ens, made, loaded, otherThanPq>>

\* versions a file may claim
Versions == {1, 2}

\* the process that reads the key file through a runtime of its own
Reader == 2

\* the runtimes that may read what rt wrote: any device, label and path
ReadersOf(rt) == {r \in Runtimes : r.scheme = rt.scheme}

\* the runtimes that write the key file: either scheme, a relative and an
\* absolute path
WriterRuntimes ==
    [dev : {1}, label : {<<"v">>}, path : {<<"a">>, <<"/", "b">>}, scheme : Schemes]

\* the writer with one of its runtimes, the reader with any runtime, and
\* nobody but the writer calling EnsurePQKeypair
InitEnvelope ==
    /\ \E rt \in WriterRuntimes, r \in Runtimes :
            /\ r \in ReadersOf(rt)
            /\ rts = [p \in Procs |-> IF p = Reader THEN r ELSE rt]
    /\ dir = [n \in Names |-> NoFile]
    /\ files = [p \in Procs |-> Missing]
    /\ ens = [p \in Procs |-> IF p = Writer THEN NotCalled ELSE NeverCalls]
    /\ made = {}
    /\ loaded = NoLoad
    /\ edits = NoEdit

-----------------------------------------------------------------------------
(* tpmdevice/tpmdevice.go: what client.Sign returns, byte by byte.  A       *)
(* *big.Int is nil or holds n.Bytes(): its bytes, big-endian, without a     *)
(* leading zero byte.                                                       *)

\* pad32: out := make([]byte, 32)
CoordLen == 32

\* a nil *big.Int, and the *big.Int of given bytes
NilInt == [nil |-> TRUE, bytes |-> <<>>]
BigInt(bytes) == [nil |-> FALSE, bytes |-> bytes]

ZeroBytes(n) == [i \in 1..n |-> 0]

\* a pad32 that does not pad
pad32_NoPad(n) == n.bytes

\* pad32: n as 32 bytes, big-endian
pad32(n) ==
    IF n.nil THEN ZeroBytes(CoordLen)
    ELSE With(IF Len(n.bytes) > CoordLen
              THEN SubSeq(n.bytes, Len(n.bytes) - CoordLen + 1, Len(n.bytes))
              ELSE n.bytes,
              LAMBDA nb :
                [i \in 1..CoordLen |->
                    IF i > CoordLen - Len(nb) THEN nb[i - (CoordLen - Len(nb))] ELSE 0])

\* the byte lengths of the coordinates the device answers with: R and S of
\* an ECDSA signature over P-256 are below the group order, so they take at
\* most 32 bytes, and fewer when their leading bytes are zero
CoordLens == {0, 1, 2, 16, 31, 32}
LeadBytes == {1, 255}
Coord(len, lead) == BigInt([i \in 1..len |-> IF i = 1 THEN lead ELSE (7 * i) % 256])
Coords == {Coord(len, lead) : len \in CoordLens, lead \in LeadBytes}

\* what tpm2.Sign returns: an error, a signature of another kind (sig.ECC
\* is nil), or an ECDSA signature
SignFailed == [kind |-> "err", R |-> NilInt, S |-> NilInt]
NonECC == [kind |-> "rsa", R |-> NilInt, S |-> NilInt]
ECC(r, s) == [kind |-> "ecc", R |-> r, S |-> s]
SignAnswers == {SignFailed, NonECC} \cup {ECC(r, s) : r \in Coords, s \in Coords}

\* a Sign that goes to the device whatever the client holds
NotInitialized_Never(c) == FALSE

\* if c == nil || c.rwc == nil
NotInitialized(c) == ~c.exists \/ c.rwc = "nil"

\* client.Sign on client c, tpm2.Sign answering resp: [err, raw, sent]; sent:
\* tpm2.Sign was called, a command went to the device
Sign(c, resp) ==
    IF NotInitialized(c) THEN [err |-> TRUE, raw |-> <<>>, sent |-> FALSE]
    ELSE IF resp.kind = "err" THEN [err |-> TRUE, raw |-> <<>>, sent |-> TRUE]
    ELSE IF resp.kind # "ecc" THEN [err |-> TRUE, raw |-> <<>>, sent |-> TRUE]
    ELSE [err |-> FALSE, raw |-> pad32(resp.R) \o pad32(resp.S), sent |-> TRUE]

\* base64.RawStdEncoding.EncodeToString: StdEncoding without the padding
RawEncodeToString(bytes) == SelectSeq(EncodeToString(bytes), LAMBDA ch : ch # "=")

\* client.SignB64: [err, s, sent]
SignB64(c, resp) ==
    With(Sign(c, resp), LAMBDA r :
        IF r.err THEN [err |-> TRUE, s |-> <<>>, sent |-> r.sent]
        ELSE [err |-> FALSE, s |-> RawEncodeToString(r.raw), sent |-> r.sent])

\* client.PublicKey: a copy of c.pub; client.PublicKeyB64: c.pubB64, the
\* encoding of c.pub that was made when the client was built
PublicKey(c) == c.pub
PublicKeyB64(c) == [encoded |-> c.pub]

NoSignRet == [called |-> FALSE]

InitSignBytes == signRet = NoSignRet

\* c.Sign(msg) and c.SignB64(msg) are called once, and the public key is
\* asked for; a device that is closed answers with an error
SignBytes(resp) ==
    /\ ~signRet.called
    /\ ~devOpen => resp = SignFailed
    /\ \E r \in {Sign(signer, resp)}, b \in {SignB64(signer, resp)} :
            signRet' = [called |-> TRUE, rwc |-> signer.rwc, resp |-> resp,
                        err |-> r.err, raw |-> r.raw, sent |-> r.sent, b64 |-> b,
                        closes |-> Len(closeRets),
                        pub |-> PublicKey(signer), pubB64 |-> PublicKeyB64(signer)]
    /\ UNCHANGED <<hostCall, pathCall, seal, retry, otherThanCalls>>

-----------------------------------------------------------------------------
(* tpm2Sealer, as the runtime of cryptoctx calls it: EnsurePQKeypair (which *)
(* New calls too) seals the DEK, PQPublicKeyB64 and SignPQB64 unseal it.    *)
(* The signer of the runtime holds its own session with the device.         *)

\* the blobs handed to Unseal: bytes that are no JSON document, or a
\* sealedBlobV1 with its version, its label, and Priv and Pub that this TPM
\* made ("own") or did not make ("foreign")
BlobVersions == {0, 1, 2}
BlobLabels == {<<>>, <<"v">>, <<"w">>}
NotJSON == [json |-> FALSE, V |-> 0, Label |-> <<>>, body |-> "none"]
SealedBlob(v, label, body) == [json |-> TRUE, V |-> v, Label |-> label, body |-> body]
Blobs ==
    {NotJSON} \cup
    {SealedBlob(v, l, b) : v \in BlobVersions, l \in BlobLabels, b \in {"own", "foreign"}}

\* r.pqLabel, which New requires not to be empty
CallerLabels == {<<"v">>, <<"w">>}

\* how many commands of a call the device carries out before it fails one
DeviceRuns == 0..3

SealFailed(cmds) == [err |-> TRUE, secret |-> FALSE, blob |-> NotJSON, cmds |-> cmds]

\* tpm2Sealer.Seal of a secret that is not empty, once the device is open:
\* [err, blob, cmds], cmds the commands sent to the device
tpm2SealerSeal(label, run) ==
    IF run < 1 THEN SealFailed(<<"CreatePrimary">>)
    ELSE IF run < 2 THEN SealFailed(<<"CreatePrimary", "Create", "FlushContext">>)
    ELSE [err |-> FALSE, secret |-> FALSE, blob |-> SealedBlob(1, label, "own"),
          cmds |-> <<"CreatePrimary", "Create", "FlushContext">>]

\* an Unseal that looks at the label once the blob is loaded
tpm2SealerUnseal_LoadsFirst(label, blob, run) ==
    IF ~blob.json THEN SealFailed(<<>>)
    ELSE IF blob.V # 1 THEN SealFailed(<<>>)
    ELSE IF run < 1 THEN SealFailed(<<"CreatePrimary">>)
    ELSE IF run < 2 \/ blob.body # "own"
    THEN SealFailed(<<"CreatePrimary", "Load", "FlushContext">>)
    ELSE IF blob.Label # <<>> /\ blob.Label # label
    THEN SealFailed(<<"CreatePrimary", "Load", "FlushContext", "FlushContext">>)
    ELSE IF run < 3
    THEN SealFailed(<<"CreatePrimary", "Load", "Unseal", "FlushContext", "FlushContext">>)
    ELSE [err |-> FALSE, secret |-> TRUE, blob |-> NotJSON,
          cmds |-> <<"CreatePrimary", "Load", "Unseal", "FlushContext", "FlushContext">>]

\* tpm2Sealer.Unseal once the device is open: [err, secret, cmds]
tpm2SealerUnseal(label, blob, run) ==
    IF ~blob.json THEN SealFailed(<<>>)
    ELSE IF blob.V # 1 THEN SealFailed(<<>>)
    ELSE IF blob.Label # <<>> /\ blob.Label # label THEN SealFailed(<<>>)
    ELSE IF run < 1 THEN SealFailed(<<"CreatePrimary">>)
    ELSE IF run < 2 \/ blob.body # "own"
    THEN SealFailed(<<"CreatePrimary", "Load", "FlushContext">>)
    ELSE IF run < 3
    THEN SealFailed(<<"CreatePrimary", "Load", "Unseal", "FlushContext", "FlushContext">>)
    ELSE [err |-> FALSE, secret |-> TRUE, blob |-> NotJSON,
          cmds |-> <<"CreatePrimary", "Load", "Unseal", "FlushContext", "FlushContext">>]

\* the operations of the runtime that reach the sealer, and what they call
RuntimeOps == {"New", "ensure", "publicKey", "sign"}
SealerOpOf(by) == IF by \in {"New", "ensure"} THEN "Seal" ELSE "Unseal"

NoSeal == [pc |-> "idle", by |-> "none", op |-> "none", label |-> <<>>, blob |-> NotJSON,
           opened |-> FALSE, ret |-> SealFailed(<<>>)]

InitSealer == seal = NoSeal

\* the device sessions the process holds open: the signer's and the sealer's
OpenSessions ==
    (IF devOpen THEN 1 ELSE 0) + (IF seal.pc = "opened" THEN 1 ELSE 0)

\* an operation of the runtime calls the sealer, which calls openTPM; New
\* does so with the client NewWithConfig has just returned
SealerOpen(by, label, blob, ok) ==
    /\ seal.pc = "idle"
    /\ by = "New" => (devOpen /\ signer.rwc = "set")
    /\ SealerOpOf(by) = "Seal" => blob = NotJSON
    /\ seal' = [pc |-> IF ok THEN "opened" ELSE "done", by |-> by, op |-> SealerOpOf(by),
                label |-> label, blob |-> blob, opened |-> ok, ret |-> SealFailed(<<>>)]
    /\ UNCHANGED <<hostCall, pathCall, signRet, retry, otherThanCalls>>

\* the rest of the call, the device carrying out run commands; the deferred
\* rwc.Close() ends the session
SealerRun(run) ==
    /\ seal.pc = "opened"
    /\ \E r \in {IF seal.op = "Seal" THEN tpm2SealerSeal(seal.label, run)
                 ELSE tpm2SealerUnseal(seal.label, seal.blob, run)} :
            seal' = [seal EXCEPT !.pc = "done", !.ret = r]
    /\ UNCHANGED <<hostCall, pathCall, signRet, retry, otherThanCalls>>

-----------------------------------------------------------------------------
(* retry.Retry.  A time.Duration is counted in microseconds (Go counts      *)
(* nanoseconds); Milliseconds drops what is below a millisecond either way. *)

Millisecond == 1000
Second == 1000 * Millisecond

\* time.Duration.Milliseconds
Milliseconds(d) == d \div Millisecond

\* retry.Min
Min(a, b) == IF a <= b THEN a ELSE b

InfiniteRetries == 0 - 1

\* the fields of Config that decide when Retry retries
DefaultConfig ==
    [MaxNumRetries |-> InfiniteRetries,
     InitialDelayBeforeRetrying |-> 100 * Millisecond,
     MaxDelayBeforeRetrying |-> 10 * Second]

\* the configurations Retry is called with: the default one, one with few
\* retries, one whose first delay is above its longest, one of delays that
\* are no whole milliseconds
RetryConfigs ==
    {DefaultConfig,
     [MaxNumRetries |-> 3, InitialDelayBeforeRetrying |-> 1 * Millisecond,
      MaxDelayBeforeRetrying |-> 3 * Millisecond],
     [MaxNumRetries |-> InfiniteRetries, InitialDelayBeforeRetrying |-> 20 * Second,
      MaxDelayBeforeRetrying |-> 10 * Second],
     [MaxNumRetries |-> InfiniteRetries, InitialDelayBeforeRetrying |-> 1500,
      MaxDelayBeforeRetrying |-> 4 * Millisecond],
     [MaxNumRetries |-> 0, InitialDelayBeforeRetrying |-> 1 * Millisecond,
      MaxDelayBeforeRetrying |-> 1 * Second]}

\* how many retries a behaviour holds
MaxRetrySteps == 9

\* how retryableOperationFn ends: without an error, with an error that
\* shouldRetryFn returns true for, with one it returns false for
Outcomes == {"ok", "retryable", "unretryable"}

\* shouldRetryFn: nil, or a predicate such as isRetryable
RetryFns == {"nil", "isRetryable"}

\* what Retry returned: kind "none" while it runs; wraps, the invocation of
\* the operation whose error the returned error wraps (0: no error)
Running == [kind |-> "none", wraps |-> 0]
Returns(kind, wraps) == [kind |-> kind, wraps |-> wraps]

NoRetry == [pc |-> "idle", cfg |-> DefaultConfig, fn |-> "nil", numRetries |-> 0,
            delayBeforeRetryMS |-> 0, waits |-> <<>>, calls |-> 0, sleeps |-> 0,
            last |-> "none", cancelled |-> FALSE, callsAtCancel |-> 0, ret |-> Running]

InitRetry == retry = NoRetry

\* Retry is called with cfg and shouldRetryFn, under a context that is
\* cancelled already or is not
RetryCall(cfg, fn, cancelled) ==
    /\ retry.pc = "idle"
    /\ retry' = [NoRetry EXCEPT !.pc = "operation", !.cfg = cfg, !.fn = fn,
                    !.delayBeforeRetryMS = Milliseconds(cfg.InitialDelayBeforeRetrying),
                    !.cancelled = cancelled]
    /\ UNCHANGED <<hostCall, pathCall, signRet, seal, otherThanCalls>>

\* the context of the call is cancelled while Retry runs
RetryCancel ==
    /\ retry.pc \in {"operation", "sleep"}
    /\ ~retry.cancelled
    /\ retry.numRetries < MaxRetrySteps
    /\ retry' = [retry EXCEPT !.cancelled = TRUE, !.callsAtCancel = retry.calls]
    /\ UNCHANGED <<hostCall, pathCall, signRet, seal, otherThanCalls>>

\* the delay of the retry that follows n - 1 retries
NextDelay(cfg, delay, n) ==
    IF n > 1 THEN Min(delay * 2, Milliseconds(cfg.MaxDelayBeforeRetrying)) ELSE delay

\* a limit that allows one retry more
MaxReached_OneMore(cfg, numRetries) ==
    cfg.MaxNumRetries # InfiniteRetries /\ numRetries = cfg.MaxNumRetries + 1

\* cfg.MaxNumRetries != InfiniteRetries && numRetries == cfg.MaxNumRetries
MaxReached(cfg, numRetries) ==
    cfg.MaxNumRetries # InfiniteRetries /\ numRetries = cfg.MaxNumRetries

\* a Retry that does not ask shouldRetryFn
Unretryable_NotAsked(fn, outcome) == FALSE

\* shouldRetryFn != nil && !shouldRetryFn(err)
Unretryable(fn, outcome) == fn # "nil" /\ outcome = "unretryable"

\* performOperation: the operation is invoked and ends with outcome; after
\* an error that is to be retried Retry counts the retry, sets the delay and
\* calls SleepWithContext
RetryInvoke(outcome) ==
    /\ retry.pc = "operation"
    /\ \E k \in {retry.calls + 1} :
        IF outcome = "ok"
        THEN retry' = [retry EXCEPT !.pc = "done", !.calls = k, !.last = outcome,
                                    !.ret = Returns("result", 0)]
        ELSE IF MaxReached(retry.cfg, retry.numRetries)
        THEN retry' = [retry EXCEPT !.pc = "done", !.calls = k, !.last = outcome,
                                    !.ret = Returns("failed after max retries", k)]
        ELSE IF Unretryable(retry.fn, outcome)
        THEN retry' = [retry EXCEPT !.pc = "done", !.calls = k, !.last = outcome,
                                    !.ret = Returns("failed, unretryable", k)]
        ELSE \E n \in {retry.numRetries + 1} :
                retry' = [retry EXCEPT
                            !.pc = "sleep", !.calls = k, !.last = outcome,
                            !.numRetries = n,
                            !.delayBeforeRetryMS = NextDelay(retry.cfg, @, n),
                            !.sleeps = @ + 1]
    /\ UNCHANGED <<hostCall, pathCall, signRet, seal, otherThanCalls>>

\* a Retry that does not look at the context after the sleep
AfterSleep_NoCtxErr(r) ==
    [r EXCEPT !.pc = "operation", !.waits = Append(@, r.delayBeforeRetryMS * Millisecond)]

\* SleepWithContext has returned, the context cancelled or the delay over:
\* Retry returns the context error or goes to performOperation
AfterSleep(r) ==
    IF r.cancelled
    THEN [r EXCEPT !.pc = "done", !.ret = Returns("context error", r.calls)]
    ELSE [r EXCEPT !.pc = "operation",
                   !.waits = Append(@, r.delayBeforeRetryMS * Millisecond)]

\* SleepWithContext returns: at once when the context is cancelled, when the
\* delay is over otherwise
RetrySleepReturns ==
    /\ retry.pc = "sleep"
    /\ retry.numRetries <= MaxRetrySteps
    /\ retry' = AfterSleep(retry)
    /\ UNCHANGED <<hostCall, pathCall, signRet, seal, otherThanCalls>>

-----------------------------------------------------------------------------
(* qa/requests/canonical.go: CanonicalString called on two inputs, so that  *)
(* the texts of two requests can be compared.  The fields are Go strings:   *)
(* CanonicalString looks into none of Method, Path, AppID and the three     *)
(* ids, so they hold any bytes, a line break included.                      *)

Slash == <<"/">>
PairMethods == {<<"G","E","T">>, <<"g","e","t">>}
PairPaths == {Slash, Slash \o <<"\n">> \o AppPrefix \o <<"a">>}
PairAppIDs == {<<"b">>, <<"a", "\n">> \o AppPrefix \o <<"b">>}
PairHosts == {<<"h">>, <<"H",":","4","4","3">>}
PairHashes == {Rep("a", HashLen), Rep("A", HashLen), Rep("b", HashLen - 1)}

PairInputs ==
    [Method : PairMethods, Path : PairPaths, AppID : PairAppIDs, BackendHost : PairHosts,
     TS : {1700000000}, ChallengeID : {UuidV4A}, UserID : {UuidV4B},
     DeviceID : {UuidV4A}, BodySHA256Hex : PairHashes]

NoPair == [called |-> FALSE]

InitPair == pair = NoPair

\* CanonicalString(x) and CanonicalString(y), one after the other
CanonicalizePair(x, y) ==
    /\ ~pair.called
    /\ \E r \in {CanonicalString(x)}, t \in {CanonicalString(y)} :
            pair' = [called |-> TRUE, x |-> x, y |-> y, rx |-> r, ry |-> t]
    /\ UNCHANGED <<rtNew, eth, sub, otherThanMore>>

-----------------------------------------------------------------------------
(* tpmdevice/windows_tpm.go: cryptoctx.New, the constructor of the runtime. *)
(* It looks the PQ scheme up, opens the signer with NewWithConfig, and then *)
(* fails when the signer has no public key, when no key file path is given  *)
(* and the default one cannot be found, when PQLabel is empty, or when      *)
(* EnsurePQKeypair fails.                                                   *)

\* if schemeName == "" { schemeName = "ML-DSA-65" }
DefaultScheme == "ML-DSA-65"
\* schemes.ByName(schemeName) != nil
SchemeByName(name) == name = DefaultScheme

\* cryptoctx.Config: the signer's Config and the PQ settings New reads
RuntimeConfigs ==
    [TPM : {ZeroConfig, [ZeroConfig EXCEPT !.Handle = 1]},
     PQSchemeName : {"", "none"}, PQKeyFilePath : {"", "k"}, PQLabel : {"", "l"}]

\* what New meets outside the device: os.UserConfigDir fails (defaultPQPath
\* returns an error), EnsurePQKeypair fails, or nothing fails
RuntimeEnvs == {"ok", "nodir", "ensure"}

\* New between NewWithConfig returning client c and its own return:
\* [err, closed]; closed: New called Close on the signer
AfterSigner(rcfg, c, env) ==
    IF c.pub = "none" THEN [err |-> TRUE, closed |-> TRUE]
    ELSE IF rcfg.PQKeyFilePath = "" /\ env = "nodir" THEN [err |-> TRUE, closed |-> TRUE]
    ELSE IF rcfg.PQLabel = "" THEN [err |-> TRUE, closed |-> TRUE]
    ELSE IF env = "ensure" THEN [err |-> TRUE, closed |-> TRUE]
    ELSE [err |-> FALSE, closed |-> FALSE]

\* New: [asked, r, made, err, closed]; asked: NewWithConfig was called, r: what
\* it returned, made: it returned a signer
NewResult(st, rcfg, goos, F, env) ==
    IF ~SchemeByName(IF rcfg.PQSchemeName = "" THEN DefaultScheme ELSE rcfg.PQSchemeName)
    THEN [asked |-> FALSE, r |-> [opened |-> FALSE, st |-> st, res |-> NoClient],
          made |-> FALSE, err |-> TRUE, closed |-> FALSE]
    ELSE With(NewWithConfigResult(st, rcfg.TPM, goos, F), LAMBDA r :
            IF ~r.res.ok
            THEN [asked |-> TRUE, r |-> r, made |-> FALSE, err |-> TRUE, closed |-> FALSE]
            ELSE With(AfterSigner(rcfg, r.res, env), LAMBDA a :
                    [asked |-> TRUE, r |-> r, made |-> TRUE, err |-> a.err,
                     closed |-> a.closed]))

NoNew == [called |-> FALSE]

InitNew == rtNew = NoNew

\* cryptoctx.New(ctx, rcfg) on platform goos, the device failing as F says,
\* whatever else fails given by env; when New closes the signer it drops what
\* Close returns
New(rcfg, goos, F, env) ==
    /\ ~rtNew.called
    /\ ~call.made
    /\ \E n \in {NewResult([slots |-> slots, transients |-> transients, log |-> <<>>],
                           rcfg, goos, F, env)} :
        /\ rtNew' = [called |-> TRUE, cfg |-> rcfg, env |-> env, asked |-> n.asked,
                     made |-> n.made, err |-> n.err]
        /\ call' = IF n.asked
                   THEN [made |-> TRUE, cfg |-> rcfg.TPM, goos |-> goos, slots0 |-> slots,
                         opened |-> n.r.opened, ok |-> n.r.res.ok]
                   ELSE call
        /\ slots' = n.r.st.slots
        /\ transients' = n.r.st.transients
        /\ log' = n.r.st.log
        /\ devOpen' = (rwcOpenAfter(n.r.opened, n.r.res.ok) /\ ~n.closed)
        /\ signer' = IF n.made
                     THEN [exists |-> TRUE,
                           rwc    |-> IF n.closed THEN RwcAfterClose("set") ELSE "set",
                           handle |-> n.r.res.handle, pub |-> n.r.res.pub]
                     ELSE NoSigner
        /\ devCloses' = IF n.closed THEN devCloses + 1 ELSE devCloses
        /\ closeRets' = IF n.closed THEN Append(closeRets, CloseReturn("nil")) ELSE closeRets
    /\ UNCHANGED <<pair, eth, sub, canonVars, signVars, pqVars, callVars>>

-----------------------------------------------------------------------------
(* ethrpc/client.go: the client that holds many networks and the active     *)
(* network and RPC.  c is the *Client: [Networks, ActiveNetwork, ActiveRPC, *)
(* backendURL]; backendURL = "" stands for a nil backend.                   *)

\* how many calls on the client a behaviour holds after New
MaxEthCalls == 2

Mainnet == [RPCs |-> <<[Name |-> "r1", URL |-> "m1"], [Name |-> "r2", URL |-> "m2"]>>]
Testnet == [RPCs |-> <<[Name |-> "r2", URL |-> "t2"]>>]
\* a network configured without endpoints
Barenet == [RPCs |-> <<>>]
NetworkMaps ==
    {("main" :> Mainnet) @@ ("test" :> Testnet),
     ("main" :> Mainnet) @@ ("test" :> Testnet) @@ ("bare" :> Barenet)}
NetworkNames == {"", "main", "test", "bare"}
RPCNames == {"", "r1", "r2"}

\* MultiConfig as it is given to New
MultiConfigs ==
    [Networks : NetworkMaps, ActiveNetwork : {"", "main", "test"}, ActiveRPC : RPCNames]

hasRPC(rpcs, name) == \E i \in 1..Len(rpcs) : rpcs[i].Name = name

\* UseNetwork: [c, err]
UseNetwork(c, networkName) ==
    IF networkName \notin DOMAIN c.Networks THEN [c |-> c, err |-> TRUE]
    ELSE With2([c EXCEPT !.ActiveNetwork = networkName], c.Networks[networkName].RPCs,
               LAMBDA c1, rpcs :
                 IF Len(rpcs) = 0 THEN [c |-> c1, err |-> TRUE]
                 ELSE IF c1.ActiveRPC = "" \/ ~hasRPC(rpcs, c1.ActiveRPC)
                 THEN [c |-> [c1 EXCEPT !.ActiveRPC = rpcs[1].Name], err |-> FALSE]
                 ELSE [c |-> c1, err |-> FALSE])

\* UseRPC: [c, err]
UseRPC(c, rpcName) ==
    IF c.ActiveNetwork \notin DOMAIN c.Networks \/ c.ActiveNetwork = ""
    THEN [c |-> c, err |-> TRUE]
    ELSE IF ~hasRPC(c.Networks[c.ActiveNetwork].RPCs, rpcName) THEN [c |-> c, err |-> TRUE]
    ELSE [c |-> [c EXCEPT !.ActiveRPC = rpcName], err |-> FALSE]

\* activeURL: [url, err]
activeURL(c) ==
    IF c.ActiveNetwork = "" THEN [url |-> "", err |-> TRUE]
    ELSE IF c.ActiveNetwork \notin DOMAIN c.Networks THEN [url |-> "", err |-> TRUE]
    ELSE IF c.ActiveRPC = "" THEN [url |-> "", err |-> TRUE]
    ELSE With(c.Networks[c.ActiveNetwork].RPCs, LAMBDA rpcs :
            IF ~hasRPC(rpcs, c.ActiveRPC) THEN [url |-> "", err |-> TRUE]
            ELSE [url |-> rpcs[CHOOSE i \in 1..Len(rpcs) :
                                  /\ rpcs[i].Name = c.ActiveRPC
                                  /\ \A j \in 1..(i - 1) : rpcs[j].Name # c.ActiveRPC].URL,
                  err |-> FALSE])

\* EnsureBackend, ethclient.DialContext succeeding or not: [c, err]
EnsureBackend(c, dialOk) ==
    With(activeURL(c), LAMBDA u :
        IF u.err THEN [c |-> c, err |-> TRUE]
        ELSE IF c.backendURL # "" /\ c.backendURL = u.url THEN [c |-> c, err |-> FALSE]
        ELSE IF ~dialOk THEN [c |-> c, err |-> TRUE]
        ELSE [c |-> [c EXCEPT !.backendURL = u.url], err |-> FALSE])

\* the three lines WithNetwork restores with: UseNetwork(prevNet), UseRPC(prevRPC)
\* when prevRPC is set, EnsureBackend, the error of each dropped
Restore(c, prevNet, prevRPC, redialOk) ==
    With(UseNetwork(c, prevNet).c, LAMBDA c1 :
        With(IF prevRPC # "" THEN UseRPC(c1, prevRPC).c ELSE c1, LAMBDA c2 :
            EnsureBackend(c2, redialOk).c))

\* WithNetwork, fn returning an error or nil: [c, err, ran]; ran: fn was called
WithNetwork(c, networkName, dialOk, redialOk, fnErr) ==
    With2(c.ActiveNetwork, c.ActiveRPC, LAMBDA prevNet, prevRPC :
        With(UseNetwork(c, networkName), LAMBDA u :
            IF u.err THEN [c |-> u.c, err |-> TRUE, ran |-> FALSE]
            ELSE With(IF prevRPC # "" THEN UseRPC(u.c, prevRPC).c ELSE u.c, LAMBDA c2 :
                    With(EnsureBackend(c2, dialOk), LAMBDA b :
                        IF b.err
                        THEN [c |-> Restore(b.c, prevNet, prevRPC, redialOk),
                              err |-> TRUE, ran |-> FALSE]
                        ELSE [c |-> Restore(b.c, prevNet, prevRPC, redialOk),
                              err |-> fnErr, ran |-> TRUE]))))

NoEth == [made |-> FALSE]
NoEthCall == [op |-> "none"]

InitEth == eth = NoEth

\* New(cfg): cfg.Normalize() writes each network's name into it and touches
\* nothing else; EnsureBackend is tried when an active network is set
EthNew(cfg, dialOk) ==
    /\ ~eth.made
    /\ \E c \in {EnsureBackend([Networks |-> cfg.Networks,
                                ActiveNetwork |-> cfg.ActiveNetwork,
                                ActiveRPC |-> cfg.ActiveRPC, backendURL |-> ""],
                               dialOk).c} :
            eth' = [made |-> TRUE, c |-> c, calls |-> 0, last |-> NoEthCall]
    /\ UNCHANGED <<pair, rtNew, sub, otherThanMore>>

\* what a call leaves in eth: the client, and the call with the client it met
EthAfter(op, arg, r, ran) ==
    [made |-> TRUE, c |-> r.c, calls |-> eth.calls + 1,
     last |-> [op |-> op, arg |-> arg, err |-> r.err, ran |-> ran, prev |-> eth.c]]

\* c.UseNetwork(networkName)
EthUseNetwork(networkName) ==
    /\ eth.made
    /\ eth.calls < MaxEthCalls
    /\ \E r \in {UseNetwork(eth.c, networkName)} :
            eth' = EthAfter("UseNetwork", networkName, r, FALSE)
    /\ UNCHANGED <<pair, rtNew, sub, otherThanMore>>

\* c.UseRPC(rpcName)
EthUseRPC(rpcName) ==
    /\ eth.made
    /\ eth.calls < MaxEthCalls
    /\ \E r \in {UseRPC(eth.c, rpcName)} :
            eth' = EthAfter("UseRPC", rpcName, r, FALSE)
    /\ UNCHANGED <<pair, rtNew, sub, otherThanMore>>

\* c.WithNetwork(ctx, networkName, fn), nobody else calling the client
EthWithNetwork(networkName, dialOk, redialOk, fnErr) ==
    /\ eth.made
    /\ eth.calls < MaxEthCalls
    /\ \E r \in {WithNetwork(eth.c, networkName, dialOk, redialOk, fnErr)} :
            eth' = EthAfter("WithNetwork", networkName, r, r.ran)
    /\ UNCHANGED <<pair, rtNew, sub, otherThanMore>>

-----------------------------------------------------------------------------
(* evm/sim.go: SubscribeNewHead of the simulated chain, emulated by a       *)
(* goroutine that polls HeaderByNumber on a ticker and sends each new head  *)
(* to the caller's channel.  sub.pc is where the goroutine is: at its       *)
(* select, in HeaderByNumber, at the send `out <- h`, or returned.          *)

\* how many times a behaviour calls Unsubscribe
MaxUnsubs == 2
\* the highest block number the chain reaches
MaxHead == 2

\* the caller's channel: nil, unbuffered, or buffered with room for one header
OutChans == {[nil |-> TRUE, cap |-> 0], [nil |-> FALSE, cap |-> 0], [nil |-> FALSE, cap |-> 1]}

\* what HeaderByNumber(subCtx, nil) returns: an error, a nil header, the head
HeaderAnswers ==
    {[kind |-> "err", n |-> 0], [kind |-> "nil", n |-> 0]}
        \cup {[kind |-> "header", n |-> k] : k \in 0..MaxHead}

\* the subscription before SubscribeNewHead, and what a goroutine starts with
NoSub == [made |-> FALSE, err |-> FALSE, pc |-> "none", done |-> FALSE,
          once |-> FALSE, unsubs |-> 0, outCap |-> 0, outLen |-> 0,
          errLen |-> 0, errClosed |-> FALSE, last |-> 0, initialized |-> FALSE]

InitSub == sub = NoSub

\* SubscribeNewHead(ctx, ch): an error for a nil channel, else the goroutine
\* starts; errCh has room for one error
SubscribeNewHead(ch) ==
    /\ ~sub.made
    /\ sub' = IF ch.nil
              THEN [NoSub EXCEPT !.made = TRUE, !.err = TRUE]
              ELSE [NoSub EXCEPT !.made = TRUE, !.pc = "select", !.outCap = ch.cap]
    /\ UNCHANGED <<pair, rtNew, eth, otherThanMore>>

Subscribed == sub.made /\ ~sub.err

\* s.Unsubscribe(): s.once.Do(func() { s.cancel() })
Unsubscribe ==
    /\ Subscribed
    /\ sub.unsubs < MaxUnsubs
    /\ sub' = [sub EXCEPT !.unsubs = @ + 1, !.once = TRUE,
                          !.done = IF sub.once THEN @ ELSE TRUE]
    /\ UNCHANGED <<pair, rtNew, eth, otherThanMore>>

\* the context given to SubscribeNewHead is cancelled: subCtx is done
CancelContext ==
    /\ Subscribed
    /\ ~sub.done
    /\ sub' = [sub EXCEPT !.done = TRUE]
    /\ UNCHANGED <<pair, rtNew, eth, otherThanMore>>

\* the goroutine returns: defer t.Stop(), defer close(s.errCh)
Exited(s) == [s EXCEPT !.pc = "exited", !.errClosed = TRUE]

\* select takes case <-subCtx.Done(): return
SelectDone ==
    /\ Subscribed
    /\ sub.pc = "select"
    /\ sub.done
    /\ sub' = Exited(sub)
    /\ UNCHANGED <<pair, rtNew, eth, otherThanMore>>

\* select takes case <-t.C
SelectTick ==
    /\ Subscribed
    /\ sub.pc = "select"
    /\ sub' = [sub EXCEPT !.pc = "poll"]
    /\ UNCHANGED <<pair, rtNew, eth, otherThanMore>>

\* the goroutine has a header to deliver: out <- h
AfterHeader(s) == [s EXCEPT !.pc = "send"]

\* HeaderByNumber returns a: the error goes to errCh, which has room for it,
\* and the goroutine returns; a nil header is skipped; the first header, and
\* each header above the last one sent, is sent to out
Poll(a) ==
    /\ Subscribed
    /\ sub.pc = "poll"
    /\ sub' = IF a.kind = "err" THEN Exited([sub EXCEPT !.errLen = @ + 1])
              ELSE IF a.kind = "nil" THEN [sub EXCEPT !.pc = "select"]
              ELSE IF ~sub.initialized
              THEN AfterHeader([sub EXCEPT !.last = a.n, !.initialized = TRUE])
              ELSE IF a.n > sub.last THEN AfterHeader([sub EXCEPT !.last = a.n])
              ELSE [sub EXCEPT !.pc = "select"]
    /\ UNCHANGED <<pair, rtNew, eth, otherThanMore>>

\* out <- h goes through: the channel has room
SendBuffered ==
    /\ Subscribed
    /\ sub.pc = "send"
    /\ sub.outLen < sub.outCap
    /\ sub' = [sub EXCEPT !.pc = "select", !.outLen = @ + 1]
    /\ UNCHANGED <<pair, rtNew, eth, otherThanMore>>

\* the subscriber receives from out: a buffered header, or the one the
\* goroutine is holding at its send
Receive ==
    /\ Subscribed
    /\ \/ /\ sub.outLen > 0
          /\ sub' = [sub EXCEPT !.outLen = @ - 1]
       \/ /\ sub.outLen = 0
          /\ sub.pc = "send"
          /\ sub' = [sub EXCEPT !.pc = "select"]
    /\ UNCHANGED <<pair, rtNew, eth, otherThanMore>>

-----------------------------------------------------------------------------
(* Specifications *)

\* the lines of the canonical text that carry a label
LabeledLines == 3..9

NextCanon ==
    \/ \E x \in CanonicalInputs : Canonicalize(x)
    \/ DropLastLine
    \/ AppendLine
    \/ \E k \in LabeledLines : BreakLabel(k)
    \/ Parse

NextTpm ==
    \/ \E cfg \in Configs, goos \in Platforms, F \in FaultPlans : Open(cfg, goos, F)
    \/ \E e \in CloseErrors : Close(e)

\* the signer untouched
TpmIdle ==
    /\ slots = [h \in Handles |-> EmptySlot]
    /\ transients = 0
    /\ devOpen = FALSE
    /\ signer = NoSigner
    /\ call = NoCall
    /\ log = <<>>
    /\ closeRets = <<>>
    /\ devCloses = 0

\* no goroutine in Sign
SignIdle == InitSign

\* the key file untouched
PqIdle == InitPq

\* none of the calls looked at on their own is made
CallsIdle ==
    /\ InitNorm /\ InitSignBytes /\ InitSealer /\ InitRetry
    /\ InitPair /\ InitNew /\ InitEth /\ InitSub

\* the canonicalizer on its own
InitCanonical == InitCanon /\ TpmIdle /\ SignIdle /\ PqIdle /\ CallsIdle
SpecCanonical == InitCanonical /\ [][NextCanon]_vars

\* the signer on its own
InitSigner == InitCanon /\ InitTpm /\ SignIdle /\ PqIdle /\ CallsIdle
SpecSigner == InitSigner /\ [][NextTpm]_vars

NextSign ==
    \/ \E g \in Goroutines, m \in Messages : SignCall(g, m)
    \/ \E g \in Goroutines, taken \in SessionTakes : SignWrite(g, taken)
    \/ \E g \in Goroutines, r \in {Signature(h) : h \in Goroutines} \cup {SignError} :
            SignRead(g, r)
    \/ \E e \in CloseErrors : Close(e)

\* goroutines that share one open client
InitSharedClient == InitCanon /\ InitOpened /\ InitSign /\ PqIdle /\ CallsIdle
SpecSign == InitSharedClient /\ [][NextSign]_vars


NextVault ==
    \/ \E p \in Procs, ok \in BOOLEAN : EnsureStat(p, ok)
    \/ \E p \in Procs : EnsureRemoveTmp(p)
    \/ \E p \in Procs, ok \in BOOLEAN : EnsureOpenTmp(p, ok)
    \/ \E p \in Procs, ok \in BOOLEAN : EnsureWriteTmp(p, ok)
    \/ \E p \in Procs, ok \in BOOLEAN : EnsureRename(p, ok)
    \/ \E p \in Procs : EnsureCleanup(p)
    \/ \E p \in Procs, op \in LoadOps : Load(rts[p], op)

\* processes that share one key file
InitVault == InitCanon /\ TpmIdle /\ SignIdle /\ InitPq /\ CallsIdle
SpecVault == InitVault /\ [][NextVault]_vars

NextEnvelope ==
    \/ \E ok \in BOOLEAN : EnsureStat(Writer, ok)
    \/ EnsureRemoveTmp(Writer)
    \/ \E ok \in BOOLEAN : EnsureOpenTmp(Writer, ok)
    \/ \E ok \in BOOLEAN : EnsureWriteTmp(Writer, ok)
    \/ \E ok \in BOOLEAN : EnsureRename(Writer, ok)
    \/ EnsureCleanup(Writer)
    \/ \E field \in B64Fields, i \in FieldPositions, how \in Changes :
            TamperChar(field, i, how)
    \/ \E v \in Versions : TamperVersion(v)
    \/ \E l \in PQLabels \cup {<<>>} : TamperLabel(l)
    \/ \E to \in KeyFilePaths : Move(to)
    \/ \E p \in Procs, op \in LoadOps : Load(rts[p], op)

\* a key file written once, then altered or moved, and read
InitEnvelopeFile == InitCanon /\ TpmIdle /\ SignIdle /\ InitEnvelope /\ CallsIdle
SpecEnvelope == InitEnvelopeFile /\ [][NextEnvelope]_vars

NextNormalize ==
    \/ \E parts \in HostParts : NormalizeHost(parts)
    \/ \E in \in PathInputs, collapse \in BOOLEAN : NormalizePath(in, collapse)

\* the normalizers of the canonicalizer, called on their own
InitNormalize == InitCanon /\ TpmIdle /\ SignIdle /\ PqIdle /\ CallsIdle
SpecNormalize == InitNormalize /\ [][NextNormalize]_vars

NextSignBytes ==
    \/ \E resp \in SignAnswers : SignBytes(resp)
    \/ \E e \in CloseErrors : Close(e)

\* one Sign on an open client, which may be closed before
InitSignOnce == InitCanon /\ InitOpened /\ SignIdle /\ PqIdle /\ CallsIdle
SpecSignBytes == InitSignOnce /\ [][NextSignBytes]_vars

NextSealer ==
    \/ \E by \in RuntimeOps, label \in CallerLabels, blob \in Blobs, ok \in BOOLEAN :
            SealerOpen(by, label, blob, ok)
    \/ \E run \in DeviceRuns : SealerRun(run)
    \/ \E e \in CloseErrors : Close(e)

\* a runtime whose signer is open calls its sealer
InitRuntime == InitCanon /\ InitOpened /\ SignIdle /\ PqIdle /\ CallsIdle
SpecSealer == InitRuntime /\ [][NextSealer]_vars

NextRetry ==
    \/ \E cfg \in RetryConfigs, fn \in RetryFns, cancelled \in BOOLEAN :
            RetryCall(cfg, fn, cancelled)
    \/ \E outcome \in Outcomes : RetryInvoke(outcome)
    \/ RetrySleepReturns
    \/ RetryCancel

\* one call of Retry
InitRetryCall == InitCanon /\ TpmIdle /\ SignIdle /\ PqIdle /\ CallsIdle
SpecRetry == InitRetryCall /\ [][NextRetry]_vars

\* the goroutine that called Retry runs on: the operation returns, and the
\* sleep ends
InitRetryRuns == InitCanon /\ TpmIdle /\ SignIdle /\ PqIdle /\ CallsIdle
SpecRetryLive ==
    /\ InitRetryRuns
    /\ [][NextRetry]_vars
    /\ WF_vars(\E outcome \in Outcomes : RetryInvoke(outcome))
    /\ WF_vars(RetrySleepReturns)

NextInjective == \E x \in PairInputs, y \in PairInputs : CanonicalizePair(x, y)

\* two requests canonicalized
InitTwoRequests == InitCanon /\ TpmIdle /\ SignIdle /\ PqIdle /\ CallsIdle
SpecInjective == InitTwoRequests /\ [][NextInjective]_vars

\* the process constructs one of the two
NextConstruct ==
    \/ /\ ~rtNew.called
       /\ \E cfg \in Configs, goos \in Platforms, F \in FaultPlans : Open(cfg, goos, F)
    \/ \E rcfg \in RuntimeConfigs, goos \in Platforms, F \in FaultPlans,
          env \in RuntimeEnvs : New(rcfg, goos, F, env)

\* the signer, or the runtime around it, constructed on a device whose handles
\* hold anything
InitConstruct == InitCanon /\ InitTpm /\ SignIdle /\ PqIdle /\ CallsIdle
SpecConstruct == InitConstruct /\ [][NextConstruct]_vars

NextEthrpc ==
    \/ \E cfg \in MultiConfigs, dialOk \in BOOLEAN : EthNew(cfg, dialOk)
    \/ \E networkName \in NetworkNames : EthUseNetwork(networkName)
    \/ \E rpcName \in RPCNames : EthUseRPC(rpcName)
    \/ \E networkName \in NetworkNames, dialOk \in BOOLEAN, redialOk \in BOOLEAN,
          fnErr \in BOOLEAN : EthWithNetwork(networkName, dialOk, redialOk, fnErr)

\* one caller on an ethrpc client
InitEthrpc == InitCanon /\ TpmIdle /\ SignIdle /\ PqIdle /\ CallsIdle
SpecEthrpc == InitEthrpc /\ [][NextEthrpc]_vars

NextSub ==
    \/ \E ch \in OutChans : SubscribeNewHead(ch)
    \/ Unsubscribe
    \/ CancelContext
    \/ SelectDone
    \/ SelectTick
    \/ \E a \in HeaderAnswers : Poll(a)
    \/ SendBuffered
    \/ Receive

\* the polling goroutine runs on: its select takes a ready case, and when
\* subCtx is done it takes that case sooner or later; HeaderByNumber returns;
\* a send to a channel with room ends.  Nothing makes the subscriber receive.
InitSubscription == InitCanon /\ TpmIdle /\ SignIdle /\ PqIdle /\ CallsIdle
SpecSubLive ==
    /\ InitSubscription
    /\ [][NextSub]_vars
    /\ SF_vars(SelectDone)
    /\ WF_vars(SelectTick)
    /\ WF_vars(\E a \in HeaderAnswers : Poll(a))
    /\ WF_vars(SendBuffered)
-----------------------------------------------------------------------------
(* Properties of the canonicalizer *)

\* the text arrived as CanonicalString returned it, and was parsed
ParsedUntouched ==
    canon.called /\ ~canon.err /\ tampered = 0 /\ parsed.kind # "none"

\* x as CanonicalString writes it: method in upper case, host normalized,
\* body hash trimmed and in lower case
NormalizedInput(x) ==
    [Method      |-> ToUpper(x.Method),
     Path        |-> x.Path,
     AppID       |-> x.AppID,
     BackendHost |-> NormalizeBackendHost(x.BackendHost),
     TS          |-> x.TS,
     ChallengeID |-> x.ChallengeID,
     UserID      |-> x.UserID,
     DeviceID    |-> x.DeviceID,
     BodySHA256  |-> ToLower(TrimSpace(x.BodySHA256Hex))]

\* C1: for every input x that CanonicalString accepts,
\* ParseCanonicalString(CanonicalString(x)) succeeds and its fields equal x's
\* method, path, appId, normalized backendHost, timestamp, challengeId,
\* userId, deviceId and body hash, x taken after normalization.
C1_RoundTrip ==
    ParsedUntouched =>
        /\ parsed.kind = "ok"
        /\ parsed.f = NormalizedInput(ci)

\* the prefix line k (from 1) of the canonical text starts with
LabelOf(k) ==
    CASE k = 3 -> AppPrefix
      [] k = 4 -> AudPrefix
      [] k = 5 -> TSPrefix
      [] k = 6 -> ChPrefix
      [] k = 7 -> UserPrefix
      [] k = 8 -> DevPrefix
      [] k = 9 -> BodyPrefix

\* the lines ParseCanonicalString sees in text s
TrimmedLines(s) == Split(TrimSpace(s), "\n")

\* a labeled line of lines does not start with its prefix
SomeLabelMissing(lines) ==
    \E k \in LabeledLines : k <= Len(lines) /\ ~HasPrefix(lines[k], LabelOf(k))

\* C2: ParseCanonicalString requires exactly 9 lines: on a text whose line
\* count after trimming is not 9, or in which a labeled line (APP, AUD, TS,
\* CHALLENGE, USER, DEVICE, BODY-SHA256) does not start with its prefix, it
\* returns an error; it neither panics nor returns a parsed structure.
C2_RejectsMalformed ==
    parsed.kind # "none" =>
        \A lines \in {TrimmedLines(wire)} :
            (Len(lines) # 9 \/ SomeLabelMissing(lines)) => parsed.kind = "err"

-----------------------------------------------------------------------------
(* Properties of the signer's open and close *)

\* NewWithConfig reached the device, scanning a range / with one handle given
RangeMode == call.made /\ call.opened /\ call.cfg.Handle = 0
ExplicitMode == call.made /\ call.opened /\ call.cfg.Handle # 0

\* the handles pickOrCreateHandle scans
ScanRange ==
    StartOf(call.cfg) .. (StartOf(call.cfg) + CountOf(call.cfg) - 1)

\* what a handle held when NewWithConfig was called
Before(h) == call.slots0[h]
Compatible(o) == o.kind = "ecc"
Incompatible(o) == o.kind = "rsa"

LogIndex == 1..Len(log)
Sent(cmd) == \E i \in LogIndex : log[i].cmd = cmd
\* the read of persistent handle h failed with an error that is not the
\* empty-handle error
ReadFailed(h) ==
    \E i \in LogIndex : log[i] = [cmd |-> "ReadPublic", h |-> h, out |-> "err"]

\* L is the lowest readable handle of the range with a compatible key, and no
\* lower handle stopped the scan: none failed to read, and none held an
\* incompatible key that ForceNew replaces
LowestCompatible(L) ==
    /\ L \in ScanRange
    /\ Compatible(Before(L))
    /\ ~ReadFailed(L)
    /\ \A l \in ScanRange : l < L =>
        /\ ~Compatible(Before(l))
        /\ ~ReadFailed(l)
        /\ ~(call.cfg.ForceNew /\ Incompatible(Before(l)))

\* C3: in range mode, for either value of forceNew, when a slot of the range
\* is readable and holds a compatible ECC key and no lower slot stopped the
\* scan, open returns a signer bound to the lowest such slot with that slot's
\* public key, and sends no CreatePrimary and no EvictControl: the device's
\* persistent state is unchanged.
C3_ReuseLowest ==
    \A L \in Handles :
        (RangeMode /\ LowestCompatible(L)) =>
            /\ call.ok
            /\ signer.handle = L
            /\ signer.pub = Before(L).pub
            /\ ~Sent("CreatePrimary")
            /\ ~Sent("EvictControl")
            /\ ~Sent("Persist")
            /\ slots = call.slots0

\* a key is reused above the first handle of the range, with ForceNew set
C3_Witness ==
    /\ RangeMode
    /\ call.cfg.ForceNew
    /\ \E L \in Handles : LowestCompatible(L) /\ L > StartOf(call.cfg) /\ signer.handle = L

\* the scan read every handle of the range and met no compatible key: no read
\* failed, and ForceNew met no incompatible key to replace
ScanCompletes ==
    /\ RangeMode
    /\ \A h \in ScanRange :
        /\ ~Compatible(Before(h))
        /\ ~ReadFailed(h)
        /\ call.cfg.ForceNew => Before(h) = EmptySlot

EmptyInRange == {h \in ScanRange : Before(h) = EmptySlot}
LowestEmpty == MinOf(EmptyInRange)

\* the commands sent after the scan of the whole range
AfterScanLog == SubSeq(log, CountOf(call.cfg) + 1, Len(log))
Cmds(l) == [i \in 1..Len(l) |-> l[i].cmd]

PersistFailed ==
    \E i \in LogIndex : log[i].cmd = "Persist" /\ log[i].out = "err"

\* C5: if a signing key was created and EvictControl fails to persist it, open
\* returns an error and no signer; every signer a successful open returns has
\* a handle that holds the persisted key.
C5_NeverTransientKey ==
    call.made =>
        /\ PersistFailed => (~call.ok /\ signer = NoSigner)
        /\ call.ok =>
            /\ signer.exists
            /\ signer.handle \in Handles
            /\ Compatible(slots[signer.handle])
            /\ slots[signer.handle].pub = signer.pub

\* a key was created and could not be persisted
C5_Witness ==
    /\ call.made
    /\ PersistFailed
    /\ \E i \in LogIndex : log[i].cmd = "CreatePrimary" /\ log[i].out = "ok"

\* every slot of the range holds a key that cannot be reused
RangeExhausted ==
    /\ call.made
    /\ call.cfg.Handle = 0
    /\ \A h \in ScanRange : Incompatible(Before(h))

RefusedUntouched ==
    /\ ~call.ok
    /\ ~Sent("CreatePrimary")
    /\ ~Sent("EvictControl")
    /\ ~Sent("Persist")

\* C6 as stated: in range mode, when no slot of the range holds a reusable
\* compatible key and no slot is empty, open returns an error without
\* sending CreatePrimary or EvictControl.
C6_Exhausted == RangeExhausted => RefusedUntouched

\* C6, amended: the same when forceNew is false.
C6_ExhaustedNoForce ==
    (RangeExhausted /\ ~call.cfg.ForceNew) => RefusedUntouched

\* a range of two or more slots, all read, all incompatible, ForceNew not set
C6_Witness ==
    /\ RangeExhausted
    /\ ~call.cfg.ForceNew
    /\ call.opened
    /\ CountOf(call.cfg) >= 2
    /\ Len(log) = CountOf(call.cfg)

\* log[i] is the read of handle h of the range, which answered with a key
\* that is not a compatible one
ReadIncompatible(i, h) ==
    /\ RangeMode
    /\ i \in LogIndex
    /\ log[i] = [cmd |-> "ReadPublic", h |-> h, out |-> "ok"]
    /\ Incompatible(Before(h))

PersistentRead(e) == e.cmd = "ReadPublic" /\ e.h # 0

\* C7: in range mode a readable slot that holds an incompatible key is
\* skipped and left untouched when forceNew is false, the scan going on with
\* the next slot; when forceNew is true, open evicts that slot and creates
\* and persists a new key in that same slot.
C7_SkipOrReplace ==
    \A h \in Handles, i \in LogIndex :
        ReadIncompatible(i, h) =>
            IF ~call.cfg.ForceNew
            THEN /\ slots[h] = Before(h)
                 /\ \A j \in LogIndex : log[j].h = h => log[j].cmd = "ReadPublic"
                 /\ (h + 1) \in ScanRange =>
                        /\ Len(log) > i
                        /\ PersistentRead(log[i + 1])
                        /\ log[i + 1].h = h + 1
            ELSE /\ Len(log) >= i + 2
                 /\ log[i + 1].cmd = "EvictControl"
                 /\ log[i + 1].h = h
                 /\ log[i + 2].cmd = "CreatePrimary"
                 /\ \A j \in LogIndex : j > i =>
                        /\ ~PersistentRead(log[j])
                        /\ log[j].cmd = "Persist" => log[j].h = h
                 /\ (\E j \in LogIndex : log[j].cmd = "Persist" /\ log[j].out = "ok")
                        => call.ok
                 /\ call.ok => (signer.handle = h /\ slots[h] = PrimaryKey)

\* with ForceNew, an RSA key above an empty slot is replaced by a new key
C7_Witness ==
    /\ call.ok
    /\ call.cfg.ForceNew
    /\ \E h \in Handles, i \in LogIndex :
        /\ ReadIncompatible(i, h)
        /\ i > 1
        /\ signer.handle = h
        /\ slots[h] = PrimaryKey

\* C8: in explicit-handle mode with forceNew set, open first tries to evict
\* the given handle, ignores a failure of that eviction, then creates and
\* persists a new key at that handle; the key of the signer it returns is
\* never the key the handle held before open.
C8_ForceNewGivesNewKey ==
    (ExplicitMode /\ call.cfg.ForceNew) =>
        /\ Len(log) >= 2
        /\ log[1].cmd = "EvictControl"
        /\ log[1].h = call.cfg.Handle
        /\ log[2].cmd = "CreatePrimary"
        /\ \A j \in LogIndex : log[j].cmd = "Persist" => log[j].h = call.cfg.Handle
        /\ call.ok =>
            /\ signer.handle = call.cfg.Handle
            /\ signer.pub # Before(call.cfg.Handle).pub

\* log[i] is a command whose failure NewWithConfig does not pass over
FatalFailure(i) ==
    /\ log[i].out = "err"
    /\ log[i].cmd \in {"ReadPublic", "CreatePrimary", "Persist"}

\* C9: a failure to open the device, a ReadPublic failure that is not the
\* empty-slot error, a CreatePrimary failure and a persist failure each end
\* open with an error: after it no later slot is examined and no signer is
\* returned.
C9_FailuresAbort ==
    call.made =>
        /\ ~call.opened => (~call.ok /\ signer = NoSigner /\ log = <<>>)
        /\ \A i \in LogIndex : FatalFailure(i) =>
            /\ ~call.ok
            /\ signer = NoSigner
            /\ \A j \in LogIndex : j > i => log[j].cmd = "FlushContext"

\* the read of a slot that is not the first of the range failed
C9_Witness ==
    /\ RangeMode
    /\ \E i \in LogIndex : i > 1 /\ FatalFailure(i) /\ PersistentRead(log[i])
                            /\ log[i].h < StartOf(call.cfg) + CountOf(call.cfg) - 1

\* C10: Close is idempotent: in Close(); Close() the second call returns nil
\* and does not close the device a second time, whatever the first returned.
C10_CloseIdempotent ==
    Len(closeRets) >= 2 =>
        /\ closeRets[2] = "nil"
        /\ devCloses = 1
        /\ ~devOpen

\* a second Close after a first one that returned an error
C10_Witness ==
    /\ Len(closeRets) = 2
    /\ closeRets[1] = "error"

-----------------------------------------------------------------------------
(* Properties of concurrent Sign calls *)

\* where goroutine g stands in sequence s
PositionIn(s, g) == CHOOSE i \in 1..Len(s) : s[i] = g

\* C11: within one signer, concurrent Sign calls are serialized: their
\* device sign commands never overlap on the session, and they complete in
\* the order in which they were submitted.
C11_SignSerialized ==
    /\ Len(inflight) <= 1
    /\ \A i, j \in 1..Len(completed) :
        i < j => PositionIn(submitted, completed[i]) < PositionIn(submitted, completed[j])


-----------------------------------------------------------------------------
(* Properties of the PQ key file *)

\* process p takes the first step of EnsurePQKeypair
StartsEnsure(p) == ens[p].pc = "idle" /\ ens'[p].pc # "idle"

\* C12: EnsurePQKeypair called when the envelope file exists returns nil and
\* changes nothing: no key is generated, nothing is sealed, no temp file is
\* written and the envelope file stays as it is.
C12_PresentChangesNothing ==
    [][\A p \in Procs :
        (StartsEnsure(p) /\ dir[Name(rts[p].path)] # NoFile) =>
            /\ ens'[p].pc = "done"
            /\ ens'[p].ret = "nil"
            /\ made' = made
            /\ dir' = dir
            /\ files' = files]_vars

\* a call that found the file another call had put there
C12_Witness ==
    \E p \in Procs :
        /\ ens[p].saw = "present"
        /\ ens[p].ret = "nil"
        /\ dir[Name(rts[p].path)] \in Procs \ {p}

\* the complete envelope at path, if there is one, is the same after the step
KeepsEnvelope(path) ==
    ContentAt(path, dir, files).kind = "env" =>
        ContentAt(path, dir', files') = ContentAt(path, dir, files)

C14_TargetAlwaysWhole ==
    /\ \A path \in KeyFilePaths : ContentAt(path, dir, files).kind # "partial"
    /\ loaded # NoLoad => loaded.content.kind # "partial"

\* no EnsurePQKeypair call is under way
NoCallUnderWay == \A p \in Procs : ens[p].pc \in {"off", "idle", "done"}

\* C15: a failed envelope write leaves no partial state on disk: once
\* atomicWriteFile has failed at writing or at renaming the temp file,
\* neither the path nor path+".tmp" holds partly written data.
C15_NoPartialLeftBehind ==
    NoCallUnderWay =>
        \A path \in KeyFilePaths :
            /\ ContentAt(path, dir, files).kind # "partial"
            /\ ContentAt(TmpPath(path), dir, files).kind # "partial"

-----------------------------------------------------------------------------
(* Properties of loadPQKeypair *)

\* a load has been made, and it failed on what is in the file
LoadFailedOnFile == loaded # NoLoad /\ loaded.res.kind \notin {"ok", "missing"}

\* C16: load returns the one opaque error ErrCorruptOrTampered for every
\* envelope failure, whichever step failed (version, label, base64, unseal,
\* AEAD open, payload), so that envelopes failing at different steps cannot
\* be told apart by the error.
C16_OneOpaqueError == LoadFailedOnFile => loaded.res.kind = "corrupt"

\* the last load read a whole envelope through a path other than the one it
\* was written at
ReadElsewhere ==
    /\ loaded # NoLoad
    /\ loaded.content.kind = "env"
    /\ Name(loaded.rt.path) # Name(rts[Writer].path)

\* C17: an envelope written at absolute path P under label L loads only
\* through a runtime with the same absolute path and label; read after it
\* was moved to another absolute path, load returns ErrCorruptOrTampered.
C17_BoundToPathAndLabel ==
    /\ (loaded # NoLoad /\ loaded.res.kind = "ok") =>
            \E a \in made : a.label = loaded.rt.label /\ a.path = Abs(loaded.rt.path)
    /\ ReadElsewhere => loaded.res.kind = "corrupt"

\* the moved file, read where it now is by a runtime that differs from the
\* writer's in the path only
C17_Witness ==
    /\ ReadElsewhere
    /\ edits.moved
    /\ loaded.rt.label = rts[Writer].label
    /\ loaded.rt.dev = rts[Writer].dev
    /\ loaded.res.kind = "corrupt"

\* the three base64 fields of envelope env are as artifact a was written
FieldsAsWritten(env, a) ==
    /\ env.SealedDEK_B64 = EncodeToString(a.sealed)
    /\ env.NonceB64 = EncodeToString(a.nonce)
    /\ env.CTB64 = EncodeToString(a.ct)

\* C18: changing any single byte of the ciphertext, nonce or sealed DEK
\* field of a valid envelope makes load fail; load never returns key
\* material from an envelope modified there.
C18_ModifiedNeverLoads ==
    (loaded # NoLoad /\ loaded.res.kind = "ok") =>
        \E a \in made : FieldsAsWritten(loaded.content.env, a)

\* the last load read the envelope of artifact a as it was written, through
\* a runtime of the same device, path and label
ReadBack(a) ==
    /\ loaded # NoLoad
    /\ loaded.content = Complete(EnvelopeOf(a))
    /\ loaded.rt.dev = a.dev
    /\ loaded.rt.label = a.label
    /\ Abs(loaded.rt.path) = a.path

\* C19: after ensure created the envelope of a generated key pair, every
\* load on the same device, path and label returns exactly that key pair,
\* however many loads, publicKey and sign calls came before.
C19_LoadsWhatWasGenerated ==
    \A a \in made :
        ReadBack(a) => /\ loaded.res.kind = "ok"
                       /\ loaded.res.pub = PubBytes(a.p)
                       /\ loaded.res.priv = PrivBytes(a.p)

\* the envelope read back as written, by a sign call, through a runtime
\* that spells the path differently, with the ciphertext that needs padding
C19_Witness ==
    /\ \E a \in made : ReadBack(a)
    /\ loaded.op = "sign"
    /\ loaded.rt.path # rts[Writer].path
    /\ loaded.rt.scheme = "ML-DSA-44"
    /\ loaded.res.kind = "ok"

\* C20: every operation that holds the DEK or a loaded private key has
\* overwritten those buffers with zeros when it returns, on success and on
\* every error path.
C20_SecretsZeroized ==
    loaded # NoLoad => loaded.res.live \cap {"dek", "priv"} = {}

-----------------------------------------------------------------------------
(* Properties of the canonical text and of the validators *)

\* an identifier that ValidateUUIDv4 rejects is among those of x
HasBadUuid(x) ==
    \/ ValidateUUIDv4(x.ChallengeID).err
    \/ ValidateUUIDv4(x.UserID).err
    \/ ValidateUUIDv4(x.DeviceID).err

\* C21: CanonicalString called with a challengeId, userId or deviceId that
\* is no UUID of version 4 (a v1 UUID, the nil UUID) returns an error and no
\* canonical string.
C21_RejectsNonV4Uuid ==
    (canon.called /\ HasBadUuid(ci)) => (canon.err /\ canon.s = <<>>)

\* x is a CanonicalInput as the data model describes it: an allowed method,
\* an origin-form path, a non-empty appId, three v4 UUIDs
ValidInput(x) ==
    /\ ~NormalizeAndValidateMethod(x.Method).err
    /\ ~NormalizeAndValidatePath(x.Path, FALSE).err
    /\ x.AppID # <<>>
    /\ ~HasBadUuid(x)

\* the labels of lines 3 to 9
LineLabels == <<AppPrefix, AudPrefix, TSPrefix, ChPrefix, UserPrefix, DevPrefix, BodyPrefix>>

\* text is nine lines, the method in upper case, the path, then the labels
NineLines(text, x) ==
    With(Split(text, "\n"), LAMBDA lines :
        /\ Len(lines) = 9
        /\ lines[1] = ToUpper(x.Method)
        /\ lines[2] = x.Path
        /\ \A k \in 1..7 : HasPrefix(lines[k + 2], LineLabels[k]))

\* C22: for every valid input the text CanonicalString returns has exactly
\* 9 lines joined by single newlines, no trailing newline: line 1 the
\* method in upper case, line 2 the path, lines 3 to 9 starting with their
\* labels in order.
C22_NineLabeledLines ==
    (canon.called /\ ~canon.err /\ ValidInput(ci)) => NineLines(canon.s, ci)

-----------------------------------------------------------------------------
(* NormalizeBackendHost and NormalizeAndValidatePath *)

\* C23: normalizing a backend host a second time changes nothing: for every
\* input h, NormalizeBackendHost(NormalizeBackendHost(h)) is
\* NormalizeBackendHost(h), hosts with ports, default ports, trailing dots
\* and IPv6 literals with and without brackets included.
C23_HostIdempotent ==
    hostCall.called => hostCall.again = hostCall.out

\* the host of a backend host without the brackets of an IPv6 literal
BareHost(h) ==
    IF HasPrefix(h, <<"[">>) /\ HasSuffix(h, <<"]">>) THEN SubSeq(h, 2, Len(h) - 1) ELSE h

DefaultPorts == {<<"8","0">>, <<"4","4","3">>}

\* what the normalization of a well-formed backend host is to be: the
\* lower-case host alone when there is no port or a default one, and
\* otherwise host:port with an IPv6 literal in its brackets
ExpectedHost(parts) ==
    IF parts.port = <<>> \/ parts.port \in DefaultPorts
    THEN ToLower(BareHost(parts.host))
    ELSE ToLower(parts.host) \o <<":">> \o parts.port

\* a host name or a bracketed IPv6 literal
WellFormedHost(h) == h # <<>> /\ (Contains(h, <<":">>) => HasPrefix(h, <<"[">>))

\* C24: NormalizeBackendHost strips scheme, path, query and fragment,
\* lower-cases the host, drops port 80 and port 443 whatever the scheme, and
\* keeps every other port as host:port with an IPv6 literal in brackets;
\* CanonicalString fails when the normalized host is empty.
C24_HostNormalForm ==
    hostCall.called =>
        /\ WellFormedHost(hostCall.parts.host) => hostCall.out = ExpectedHost(hostCall.parts)
        /\ hostCall.out = <<>> => hostCall.canonErr

\* https://Ex.COM:443/foo came out as ex.com
C24_Witness ==
    /\ hostCall.called
    /\ hostCall.in = <<"h","t","t","p","s",":","/","/","E","x",".","C","O","M",":","4","4","3","/","f","o","o">>
    /\ hostCall.out = <<"e","x",".","c","o","m">>
    /\ ~hostCall.canonErr

\* [::1]:4000 over http with a path came out as [::1]:4000
C24_WitnessIPv6 ==
    /\ hostCall.called
    /\ hostCall.parts.host = <<"[",":",":","1","]">>
    /\ hostCall.parts.port = <<"4","0","0","0">>
    /\ hostCall.parts.tail # <<>>
    /\ hostCall.out = <<"[",":",":","1","]",":","4","0","0","0">>

\* a backend host without a host made CanonicalString fail
C24_WitnessEmpty ==
    /\ hostCall.called
    /\ hostCall.out = <<>>
    /\ hostCall.canonErr

\* what follows the first "?" of str, nothing when there is none
AfterQuestionMark(str) ==
    With(str, LAMBDA s :
        With(IndexIn("?", s), LAMBDA i : IF i = 0 THEN <<>> ELSE From(s, i + 1)))

\* what precedes the first "?" of str
BeforeQuestionMark(str) ==
    With(str, LAMBDA s :
        With(IndexIn("?", s), LAMBDA i : IF i = 0 THEN s ELSE UpTo(s, i - 1)))

\* C25: for every path NormalizeAndValidatePath accepts, what follows the
\* first "?" of the output is byte for byte the raw query of the input, with
\* and without the collapsing of slashes, and collapsing changes the path
\* component only.
C25_QueryByteForByte ==
    (pathCall.called /\ ~pathCall.err) =>
        /\ AfterQuestionMark(pathCall.out) = AfterQuestionMark(TrimSpace(pathCall.in))
        /\ AfterQuestionMark(pathCall.out) = AfterQuestionMark(pathCall.plain)

-----------------------------------------------------------------------------
(* client.Sign, byte by byte *)

\* nb behind as many zero bytes as make it 32 bytes
LeftPadded(nb) == ZeroBytes(32 - Len(nb)) \o nb

\* C26: when Sign succeeds it returns exactly 64 bytes: R behind zeros up to
\* 32 bytes, then S behind zeros up to 32 bytes, for every R and S the
\* device can return; when the answer of the device carries no ECC
\* signature Sign returns an error and no bytes.
C26_SignIsPaddedRS ==
    signRet.called =>
        /\ ~signRet.err =>
            /\ signRet.resp.kind = "ecc"
            /\ Len(signRet.raw) = 64
            /\ SubSeq(signRet.raw, 1, 32) = LeftPadded(signRet.resp.R.bytes)
            /\ SubSeq(signRet.raw, 33, 64) = LeftPadded(signRet.resp.S.bytes)
        /\ (signRet.rwc = "set" /\ signRet.resp.kind = "ecc") => ~signRet.err
        /\ signRet.resp.kind # "ecc" => (signRet.err /\ signRet.raw = <<>>)

\* Sign returned a one-byte R and a 31-byte S, each behind its zeros
C26_Witness ==
    /\ signRet.called
    /\ ~signRet.err
    /\ Len(signRet.resp.R.bytes) = 1
    /\ Len(signRet.resp.S.bytes) = 31
    /\ Len(signRet.raw) = 64
    /\ signRet.raw[32] = signRet.resp.R.bytes[1]
    /\ signRet.raw[33] = 0

\* the device answered with a signature that is no ECC signature
C26_WitnessNonECC ==
    /\ signRet.called
    /\ signRet.rwc = "set"
    /\ signRet.resp = NonECC
    /\ signRet.err

-----------------------------------------------------------------------------
(* tpm2Sealer *)

\* the blob is of another version, or bound to another label
Refused(blob, label) ==
    blob.json /\ (blob.V # 1 \/ (blob.Label # <<>> /\ blob.Label # label))

SealerSent(cmd) == \E i \in 1..Len(seal.ret.cmds) : seal.ret.cmds[i] = cmd

\* C27: Unseal fails whenever the version of the blob is not 1 or the label
\* stored in the blob is not empty and differs from the label of the caller,
\* and then it sends no Load and no Unseal command to the device; a blob
\* whose stored label is empty is accepted under any label of the caller.
C27_RefusedBeforeDevice ==
    (seal.pc = "done" /\ seal.op = "Unseal") =>
        /\ Refused(seal.blob, seal.label) =>
                (seal.ret.err /\ ~SealerSent("Load") /\ ~SealerSent("Unseal"))
        /\ (seal.opened /\ seal.blob.json /\ seal.blob.V = 1 /\ seal.blob.Label = <<>>) =>
                /\ SealerSent("CreatePrimary")
                /\ ~SealerSent("Unseal") => seal.ret.err

\* a blob of this TPM under another label was refused with the device open
C27_Witness ==
    /\ seal.pc = "done"
    /\ seal.op = "Unseal"
    /\ seal.opened
    /\ seal.blob = SealedBlob(1, <<"w">>, "own")
    /\ seal.label = <<"v">>
    /\ seal.ret.err
    /\ seal.ret.cmds = <<>>

\* a blob without a label was unsealed
C27_WitnessNoLabel ==
    /\ seal.pc = "done"
    /\ seal.op = "Unseal"
    /\ seal.blob = SealedBlob(1, <<>>, "own")
    /\ ~seal.ret.err
    /\ seal.ret.secret

\* C28: at any time the process holds at most one open session with the
\* hardware device, the one of the HardwareSigner: constructing the runtime
\* and calling ensure, publicKey or sign never opens a second session while
\* the session of the signer is open.
C28_OneDeviceSession == OpenSessions <= 1

-----------------------------------------------------------------------------
(* openOrCreateAtHandle without ForceNew *)

\* NewWithConfig was called with a handle and without ForceNew, and the
\* handle could be read
ExplicitNoForce ==
    /\ ExplicitMode
    /\ ~call.cfg.ForceNew
    /\ ~ReadFailed(call.cfg.Handle)

\* the device made the key it was given persistent at handle h
PersistedAt(h) ==
    \E i \in LogIndex : log[i] = [cmd |-> "Persist", h |-> h, out |-> "ok"]

\* C29: in explicit-handle mode without forceNew, a handle that is readable
\* but holds an incompatible key makes open return an error and leaves the
\* handle untouched (no eviction, no key creation); an empty handle gets a
\* new key created and persisted; a compatible key is reused.
C29_ExplicitHandle ==
    ExplicitNoForce =>
        \A h \in {call.cfg.Handle} :
            /\ Incompatible(Before(h)) =>
                /\ ~call.ok
                /\ signer = NoSigner
                /\ ~Sent("EvictControl")
                /\ ~Sent("CreatePrimary")
                /\ ~Sent("Persist")
                /\ slots = call.slots0
            /\ Before(h) = EmptySlot =>
                /\ Sent("CreatePrimary")
                /\ ~Sent("EvictControl")
                /\ call.ok = PersistedAt(h)
                /\ call.ok =>
                    /\ signer.handle = h
                    /\ slots[h] = PrimaryKey
                    /\ Cmds(log) = <<"ReadPublic", "CreatePrimary", "ReadPublic",
                                     "Persist", "FlushContext">>
            /\ Compatible(Before(h)) =>
                /\ call.ok
                /\ signer.handle = h
                /\ signer.pub = Before(h).pub
                /\ Cmds(log) = <<"ReadPublic">>
                /\ slots = call.slots0

\* the given handle held an RSA key, was read, and open returned an error
C29_Witness ==
    /\ ExplicitNoForce
    /\ Incompatible(Before(call.cfg.Handle))
    /\ Len(log) = 1
    /\ log[1].out = "ok"
    /\ ~call.ok

\* the given handle was empty and holds the new key
C29_WitnessEmpty ==
    /\ ExplicitNoForce
    /\ Before(call.cfg.Handle) = EmptySlot
    /\ call.ok
    /\ slots[call.cfg.Handle] = PrimaryKey

\* the key the given handle held is the key of the signer
C29_WitnessReuse ==
    /\ ExplicitNoForce
    /\ Before(call.cfg.Handle) = ForeignKey
    /\ call.ok
    /\ signer.pub = "foreign"

-----------------------------------------------------------------------------
(* retry.Retry *)

\* C30: Retry backs off exponentially: it waits InitialDelayBeforeRetrying
\* before the first retry, doubles the wait before each following retry, and
\* never waits longer than MaxDelayBeforeRetrying before any retry.
C30_ExponentialBackoff ==
    \A i \in 1..Len(retry.waits) :
        /\ i = 1 => retry.waits[i] = retry.cfg.InitialDelayBeforeRetrying
        /\ i > 1 => \/ retry.waits[i] = 2 * retry.waits[i - 1]
                    \/ /\ retry.waits[i] = retry.cfg.MaxDelayBeforeRetrying
                       /\ 2 * retry.waits[i - 1] >= retry.cfg.MaxDelayBeforeRetrying
        /\ retry.waits[i] <= retry.cfg.MaxDelayBeforeRetrying

\* the claim for the configurations of whole milliseconds whose first delay
\* is not above the longest
C30_BackoffWhenOrdered ==
    (/\ retry.cfg.InitialDelayBeforeRetrying <= retry.cfg.MaxDelayBeforeRetrying
     /\ retry.cfg.InitialDelayBeforeRetrying % Millisecond = 0
     /\ retry.cfg.MaxDelayBeforeRetrying % Millisecond = 0)
        => C30_ExponentialBackoff

\* with the default configuration the ninth retry waits the longest delay
C30_DefaultReachesLimit ==
    /\ retry.cfg = DefaultConfig
    /\ Len(retry.waits) = 9
    /\ retry.waits[1] = 100 * Millisecond
    /\ retry.waits[7] = 6400 * Millisecond
    /\ retry.waits[8] = 10 * Second
    /\ retry.waits[9] = 10 * Second

RetryFailed == retry.last \in {"retryable", "unretryable"}
ReturnedError == retry.ret.kind \in {"failed after max retries", "failed, unretryable",
                                     "context error"}

\* C31: if shouldRetryFn is not nil and returns false for the error of the
\* operation, Retry returns that error at once, without sleeping and without
\* invoking the operation again; if shouldRetryFn is nil, every error is
\* retried until the limit of retries or the cancellation.
C31_UnretryableReturnsAtOnce ==
    /\ (retry.fn # "nil" /\ retry.last = "unretryable") =>
            /\ retry.pc = "done"
            /\ retry.ret.kind \in {"failed, unretryable", "failed after max retries"}
            /\ retry.ret.wraps = retry.calls
            /\ retry.sleeps = retry.calls - 1
    /\ (retry.fn = "nil" /\ RetryFailed) =>
            /\ retry.ret.kind # "failed, unretryable"
            /\ retry.pc = "done" =>
                    retry.ret.kind \in {"failed after max retries", "context error"}
            /\ retry.pc # "done" => retry.sleeps = retry.calls

\* the second invocation ended with an error that is not to be retried
C31_Witness ==
    /\ retry.fn # "nil"
    /\ retry.last = "unretryable"
    /\ retry.calls = 2
    /\ retry.sleeps = 1
    /\ retry.ret = Returns("failed, unretryable", 2)

\* without shouldRetryFn such an error is retried
C31_WitnessNil ==
    /\ retry.fn = "nil"
    /\ retry.last = "unretryable"
    /\ retry.pc = "operation"
    /\ retry.calls = 2

\* C32: with MaxNumRetries = N >= 0, Retry invokes the operation at most
\* N + 1 times; it returns the result of the first invocation that succeeds
\* and, when all N + 1 invocations fail, an error that wraps the last failure.
C32_AtMostNPlusOne ==
    retry.cfg.MaxNumRetries >= 0 =>
        /\ retry.calls <= retry.cfg.MaxNumRetries + 1
        /\ retry.last = "ok" => (retry.pc = "done" /\ retry.ret = Returns("result", 0))
        /\ retry.ret.kind = "result" => retry.last = "ok"
        /\ (retry.calls = retry.cfg.MaxNumRetries + 1 /\ RetryFailed) =>
                /\ retry.pc = "done"
                /\ retry.ret = Returns("failed after max retries", retry.calls)

\* three retries allowed, four invocations failed
C32_Witness ==
    /\ retry.cfg.MaxNumRetries = 3
    /\ retry.calls = 4
    /\ RetryFailed
    /\ retry.ret = Returns("failed after max retries", 4)

\* the third invocation was the first to succeed
C32_WitnessResult ==
    /\ retry.cfg.MaxNumRetries = 3
    /\ retry.calls = 3
    /\ retry.ret.kind = "result"

RetryRuns == retry.pc \in {"operation", "sleep"}
FiniteRetries == retry.cfg.MaxNumRetries # InfiniteRetries

\* C33 as stated, its part on what Retry returns: once the context is
\* cancelled, Retry returns an error.
C33_CancelledReturnsError ==
    (retry.pc = "done" /\ retry.cancelled) => ReturnedError

\* C33, amended: Retry terminates whenever MaxNumRetries is finite or the
\* context is cancelled; once the context is cancelled the operation is
\* invoked at most once more, and Retry then returns an error unless that
\* invocation succeeded; with InfiniteRetries and a context that is not
\* cancelled, an operation that fails with errors to be retried is retried
\* without end: Retry returns only on a success or on an error that is not
\* to be retried.
C33_Terminates ==
    /\ (RetryRuns /\ (FiniteRetries \/ retry.cancelled)) ~> (retry.pc = "done")
    /\ [](retry.cancelled => retry.calls <= retry.callsAtCancel + 1)
    /\ []((retry.pc = "done" /\ retry.cancelled /\ retry.last # "ok") => ReturnedError)
    /\ []((retry.pc = "done" /\ ~FiniteRetries /\ ~retry.cancelled) =>
            retry.ret.kind \in {"result", "failed, unretryable"})

\* with InfiniteRetries, the context was cancelled after two invocations;
\* the invocation that was due failed and Retry returned the context error
C33_Witness ==
    /\ retry.pc = "done"
    /\ ~FiniteRetries
    /\ retry.cancelled
    /\ retry.callsAtCancel = 2
    /\ retry.calls = 3
    /\ retry.ret = Returns("context error", 3)

\* with InfiniteRetries and no cancellation the operation has failed more
\* often than the model follows, and Retry has not returned
C33_WitnessForever ==
    /\ ~FiniteRetries
    /\ ~retry.cancelled
    /\ retry.numRetries > MaxRetrySteps
    /\ retry.pc = "sleep"

-----------------------------------------------------------------------------
(* C34 *)

\* the fields of an input as the claim compares them: the method after
\* uppercasing, the backend host after normalization, the body hash as
\* CanonicalString writes it, the rest as given
ComparedFields(x) ==
    [Method |-> ToUpper(x.Method), Path |-> x.Path, AppID |-> x.AppID,
     BackendHost |-> NormalizeBackendHost(x.BackendHost), TS |-> x.TS,
     ChallengeID |-> x.ChallengeID, UserID |-> x.UserID, DeviceID |-> x.DeviceID,
     BodySHA256 |-> ToLower(TrimSpace(x.BodySHA256Hex))]

BothAccepted == pair.called /\ ~pair.rx.err /\ ~pair.ry.err

\* C34: two inputs that CanonicalString accepts and that differ in method (after
\* uppercasing), path, appId, normalized backend host, timestamp, challengeId,
\* userId, deviceId or body hash never yield the same canonical string.
C34_Injective ==
    (BothAccepted /\ ComparedFields(pair.x) # ComparedFields(pair.y))
        => pair.rx.s # pair.ry.s

-----------------------------------------------------------------------------
(* C35 *)

\* the call created a transient key; the device refused a FlushContext
CreatedTransient ==
    \E i \in LogIndex : log[i] = [cmd |-> "CreatePrimary", h |-> 0, out |-> "ok"]
FlushRefused ==
    \E i \in LogIndex : log[i] = [cmd |-> "FlushContext", h |-> 0, out |-> "err"]

\* NewWithConfig returned an error after openTPM gave it a session
OpenedThenFailed == call.made /\ call.opened /\ ~call.ok
\* cryptoctx.New returned an error after NewWithConfig gave it a signer
SignerThenFailed == rtNew.called /\ rtNew.made /\ rtNew.err

C35_WitnessOpen == OpenedThenFailed /\ ~rtNew.called /\ Sent("ReadPublic")

-----------------------------------------------------------------------------
(* C36 *)

\* Sign was called after a Close had returned
SignedAfterClose == signRet.called /\ signRet.closes >= 1

\* C36: after Close has returned on a signer, Sign and SignB64 on it return an
\* error and send no command to the device, while PublicKey and PublicKeyB64
\* still return the key read at open.
C36_ClosedSignerRefuses ==
    SignedAfterClose =>
        /\ signRet.err /\ signRet.raw = <<>> /\ ~signRet.sent
        /\ signRet.b64.err /\ signRet.b64.s = <<>> /\ ~signRet.b64.sent
        /\ signRet.pub = OpenedDefault.res.pub
        /\ signRet.pubB64 = [encoded |-> OpenedDefault.res.pub]

\* Sign is called after two calls of Close, and the key is still given
C36_Witness ==
    /\ signRet.called
    /\ signRet.closes = 2
    /\ signRet.err
    /\ signRet.pub = "primary"

-----------------------------------------------------------------------------
(* C37, C38 *)

\* ActiveRPC names an RPC of ActiveNetwork
Consistent(c) ==
    /\ c.ActiveNetwork \in DOMAIN c.Networks
    /\ hasRPC(c.Networks[c.ActiveNetwork].RPCs, c.ActiveRPC)

\* the last call on the client was one of ops
LastCall(ops) == eth.made /\ eth.last.op \in ops

\* the last call left ActiveNetwork and ActiveRPC as it met them
SelectionKept ==
    /\ eth.c.ActiveNetwork = eth.last.prev.ActiveNetwork
    /\ eth.c.ActiveRPC = eth.last.prev.ActiveRPC

\* C37: a UseNetwork or UseRPC call that returns an error on a client whose
\* ActiveRPC names an RPC of its ActiveNetwork leaves ActiveNetwork and
\* ActiveRPC unchanged.
C37_ErrorLeavesUnchanged ==
    (LastCall({"UseNetwork", "UseRPC"}) /\ eth.last.err /\ Consistent(eth.last.prev))
        => SelectionKept

\* C38: with no concurrent caller, after WithNetwork returns ActiveNetwork and
\* ActiveRPC equal the values they had before the call.
C38_WithNetworkRestores == LastCall({"WithNetwork"}) => SelectionKept

-----------------------------------------------------------------------------
(* C39 *)

\* C39: after Unsubscribe or the cancellation of the subscription context the
\* polling goroutine eventually exits and closes the error channel, whether or
\* not anything receives from the header channel.
C39_EventuallyExits ==
    (Subscribed /\ sub.done) ~> (sub.pc = "exited" /\ sub.errClosed)
=============================================================================
